---- MODULE Spec2Model ----
(***************************************************************************)
(* A model of ripcalc's address/network algebra (src/src/addr.rs,          *)
(* src/src/cidr.rs, src/libripcalc/src/bit_manip.rs, src/src/net.rs) and   *)
(* of the network-set commands built on it (src/src/cmds/*.rs).            *)
(*                                                                         *)
(* Machine integers keep their real width.  A machine word (u32, u64, i32, *)
(* i64) is a sequence of bits, most significant bit first, because the     *)
(* values (up to 2^128) do not fit the model checker's integers; signed    *)
(* words are two's complement.  Vec<u8> is a sequence of numbers 0..255,   *)
(* Vec<bool> a sequence of BOOLEAN.  Option<T> is a sequence of length     *)
(* <= 1.  A call that can panic or not return has the outcome [tag, val].  *)
(***************************************************************************)
EXTENDS Integers, Sequences, FiniteSets, TLC

VARIABLES
    fn,               \* the operation that has been applied ("none" before)
    args,             \* the inputs the operation was applied to
    ret,              \* what the operation returned
    overflow_checks,  \* the build: TRUE when integer overflow panics (debug),
                      \* FALSE when it wraps (release)
    locals            \* the local variables of an operation that is in a loop

vars == <<fn, args, ret, overflow_checks, locals>>

-----------------------------------------------------------------------------
(* Bounds of the model.                                                    *)

\* arithmetic operands lie within EdgeSpan of the ends of their range
EdgeSpan == 1
\* the sampled words vary in their WindowBits highest and lowest bits
WindowBits == 2
\* nested add_offset/subtract_offset calls after which the stack is exhausted
MaxCallDepth == 4
\* the ends of a range vary in their RangeBits lowest bits
RangeBits == 3
\* the networks to minimize vary in their MergeBits lowest bits, and there
\* are at most MaxNets of them
MergeBits == 2
MaxNets == 3
\* a loop whose counter wrapped around is followed for WrapSteps iterations
WrapSteps == 2
\* a network is resized into at most 2^MaxResizeBits subnets
MaxResizeBits == 2
\* split_subnet is given at most MaxRequests host counts
MaxRequests == 3
\* the networks iterated over have at most MaxIterBits host bits, and next
\* is called at most MaxIterCalls times on one iterator
MaxIterBits == 4
MaxIterCalls == 18
\* byte sequences of sampled bytes have up to MaxMaskBytes bytes
MaxMaskBytes == 2
\* prefixes go up to ExcessPrefix above the number of bits
ExcessPrefix == 9

-----------------------------------------------------------------------------
(* Option<T>                                                               *)

None == <<>>
Some(x) == <<x>>
IsSome(o) == Len(o) = 1
Unwrap(o) == o[1]

\* the outcome of a call that may also panic or never return
Panicked == [tag |-> "panic", val |-> <<>>]
StackOverflow == [tag |-> "stack_overflow", val |-> <<>>]

-----------------------------------------------------------------------------
(* Machine words                                                           *)

\* a function on 1..n as a sequence value
AsSeq(f) == f \o <<>>

Zeros(n) == AsSeq([i \in 1..n |-> 0])
Ones(n) == AsSeq([i \in 1..n |-> 1])

\* the w-bit word holding the number n (n < 2^31)
NatToWord(n, w) ==
    AsSeq([i \in 1..w |-> IF w - i <= 30 THEN (n \div (2 ^ (w - i))) % 2 ELSE 0])

WordNot(x) == AsSeq([i \in 1..Len(x) |-> 1 - x[i]])
WordAnd(x, y) == AsSeq([i \in 1..Len(x) |-> x[i] * y[i]])
WordOr(x, y) == AsSeq([i \in 1..Len(x) |-> IF x[i] + y[i] > 0 THEN 1 ELSE 0])
WordXor(x, y) == AsSeq([i \in 1..Len(x) |-> (x[i] + y[i]) % 2])
WordCountOnes(x) == Cardinality({i \in 1..Len(x) : x[i] = 1})

\* the k-th byte of a word (k = 1 the most significant) as a number
ByteAt(x, k) ==
    x[8 * k - 7] * 128 + x[8 * k - 6] * 64 + x[8 * k - 5] * 32 + x[8 * k - 4] * 16
    + x[8 * k - 3] * 8 + x[8 * k - 2] * 4 + x[8 * k - 1] * 2 + x[8 * k]
\* the byte (x >> shift) & 0xFF as a number
ShiftedByte(x, shift) == ByteAt(x, (Len(x) - shift) \div 8)
WordToBytes(x) == AsSeq([k \in 1..(Len(x) \div 8) |-> ByteAt(x, k)])
\* the word whose bytes are bs
ConcatBytes(bs) ==
    AsSeq([i \in 1..(8 * Len(bs)) |-> (bs[((i - 1) \div 8) + 1] \div (2 ^ (7 - ((i - 1) % 8)))) % 2])

\* unsigned comparison, byte by byte from the most significant
RECURSIVE BytesLtFrom(_, _, _)
BytesLtFrom(xb, yb, k) ==
    IF k > Len(xb) THEN FALSE
    ELSE IF xb[k] # yb[k] THEN xb[k] < yb[k]
    ELSE BytesLtFrom(xb, yb, k + 1)
WordLt(x, y) == x # y /\ BytesLtFrom(WordToBytes(x), WordToBytes(y), 1)

\* xb + yb + c over bytes 1..k: the carry out followed by the k sum bytes
RECURSIVE RippleAdd(_, _, _, _)
RippleAdd(xb, yb, k, c) ==
    IF k = 0 THEN <<c>>
    ELSE LET s == xb[k] + yb[k] + c
         IN Append(RippleAdd(xb, yb, k - 1, s \div 256), s % 256)
\* x + y + c: the carry out (0 or 1) and the sum modulo 2^Len(x)
AddWithCarry(x, y, c) ==
    LET r == RippleAdd(WordToBytes(x), WordToBytes(y), Len(x) \div 8, c)
    IN [carry |-> r[1], sum |-> ConcatBytes(Tail(r))]

wrapping_add(x, y) == AddWithCarry(x, y, 0).sum
wrapping_sub(x, y) == AddWithCarry(x, WordNot(y), 1).sum
checked_add(x, y) ==
    LET r == AddWithCarry(x, y, 0)
    IN IF r.carry = 1 THEN None ELSE Some(r.sum)
checked_sub(x, y) == IF WordLt(x, y) THEN None ELSE Some(wrapping_sub(x, y))

ZeroExtend(x, w) == Zeros(w - Len(x)) \o x
SignExtend(x, w) == AsSeq([i \in 1..(w - Len(x)) |-> x[1]]) \o x
WordNeg(x) == wrapping_add(WordNot(x), NatToWord(1, Len(x)))
IsNegative(x) == x[1] = 1

\* usize: an integer n >= 0 stands for itself and n < 0 for 2^64 + n, so
\* that the values below usize::MAX are integers of the model
USIZE_MAX == -1
UsizeLt(a, b) == IF (a < 0) = (b < 0) THEN a < b ELSE b < 0

-----------------------------------------------------------------------------
(* src/src/addr.rs: Ipv4Address, Ipv6Address and the IpAddress trait       *)

Ipv4Address(addr_value) == [addr_value |-> addr_value]
Ipv6Address(top_half, bottom_half) == [top_half |-> top_half, bottom_half |-> bottom_half]
IsIpv4(a) == "addr_value" \in DOMAIN a
Family(a) == IF IsIpv4(a) THEN "Ipv4Address" ELSE "Ipv6Address"

byte_count(a) == IF IsIpv4(a) THEN 4 ELSE 16

\* the address as one word of 8 * byte_count bits
AddrWord(a) == IF IsIpv4(a) THEN a.addr_value ELSE a.top_half \o a.bottom_half

count_ones(a) ==
    IF IsIpv4(a) THEN WordCountOnes(a.addr_value)
    ELSE WordCountOnes(a.top_half) + WordCountOnes(a.bottom_half)
count_zeros(a) ==
    IF IsIpv4(a) THEN WordCountOnes(WordNot(a.addr_value))
    ELSE WordCountOnes(WordNot(a.top_half)) + WordCountOnes(WordNot(a.bottom_half))

to_bytes(a) ==
    IF IsIpv4(a)
    THEN << ShiftedByte(a.addr_value, 24), ShiftedByte(a.addr_value, 16),
            ShiftedByte(a.addr_value, 8), ShiftedByte(a.addr_value, 0) >>
    ELSE << ShiftedByte(a.top_half, 56), ShiftedByte(a.top_half, 48),
            ShiftedByte(a.top_half, 40), ShiftedByte(a.top_half, 32),
            ShiftedByte(a.top_half, 24), ShiftedByte(a.top_half, 16),
            ShiftedByte(a.top_half, 8), ShiftedByte(a.top_half, 0),
            ShiftedByte(a.bottom_half, 56), ShiftedByte(a.bottom_half, 48),
            ShiftedByte(a.bottom_half, 40), ShiftedByte(a.bottom_half, 32),
            ShiftedByte(a.bottom_half, 24), ShiftedByte(a.bottom_half, 16),
            ShiftedByte(a.bottom_half, 8), ShiftedByte(a.bottom_half, 0) >>

\* A::from_bytes: the family is the type parameter A
from_bytes(family, bytes) ==
    IF family = "Ipv4Address"
    THEN IF Len(bytes) # 4 THEN None
         ELSE Some(Ipv4Address(ConcatBytes(bytes)))
    ELSE IF Len(bytes) # 16 THEN None
         ELSE Some(Ipv6Address(ConcatBytes(SubSeq(bytes, 1, 8)),
                               ConcatBytes(SubSeq(bytes, 9, 16))))

bitwise_negate(a) ==
    IF IsIpv4(a) THEN Ipv4Address(WordXor(a.addr_value, Ones(32)))
    ELSE Ipv6Address(WordXor(a.top_half, Ones(64)), WordXor(a.bottom_half, Ones(64)))

bitand(a, b) ==
    IF IsIpv4(a) THEN Ipv4Address(WordAnd(a.addr_value, b.addr_value))
    ELSE Ipv6Address(WordAnd(a.top_half, b.top_half), WordAnd(a.bottom_half, b.bottom_half))
bitor(a, b) ==
    IF IsIpv4(a) THEN Ipv4Address(WordOr(a.addr_value, b.addr_value))
    ELSE Ipv6Address(WordOr(a.top_half, b.top_half), WordOr(a.bottom_half, b.bottom_half))
bitxor(a, b) ==
    IF IsIpv4(a) THEN Ipv4Address(WordXor(a.addr_value, b.addr_value))
    ELSE Ipv6Address(WordXor(a.top_half, b.top_half), WordXor(a.bottom_half, b.bottom_half))

\* #[derive(Ord)]: by addr_value; by top_half, then bottom_half
AddrLt(a, b) ==
    IF IsIpv4(a) THEN WordLt(a.addr_value, b.addr_value)
    ELSE \/ WordLt(a.top_half, b.top_half)
         \/ a.top_half = b.top_half /\ WordLt(a.bottom_half, b.bottom_half)
AddrLe(a, b) == a = b \/ AddrLt(a, b)

\* 0xFFFFFFFF as an i64
I64_U32_MAX == ZeroExtend(Ones(32), 64)

\* addr64 and offset64 are i64 (their sum cannot overflow an i64: both come
\* from 32-bit values)
Ipv4Address_add_internal(addr64, offset64) ==
    LET sum == wrapping_add(addr64, offset64)
    IN  IF IsNegative(sum) THEN None
        ELSE IF WordLt(I64_U32_MAX, sum) THEN None
        ELSE Some(Ipv4Address(SubSeq(sum, 33, 64)))

\* add_internal with the carry out of the low half dropped
Ipv6Address_add_internal_no_carry(addrtop64, addrbot64, offtop64, offbot64) ==
    LET bot_sum == wrapping_add(addrbot64, offbot64)
        top_sum == checked_add(addrtop64, offtop64)
    IN  IF ~IsSome(top_sum) THEN None
        ELSE Some(Ipv6Address(Unwrap(top_sum), bot_sum))

Ipv6Address_add_internal(addrtop64, addrbot64, offtop64, offbot64) ==
    LET bot_sum == wrapping_add(addrbot64, offbot64)
        is_carry == WordLt(bot_sum, addrbot64) \/ WordLt(bot_sum, offbot64)
        top_sum == checked_add(addrtop64, offtop64)
    IN  IF ~IsSome(top_sum) THEN None
        ELSE IF is_carry
             THEN LET top_sum_1 == checked_add(Unwrap(top_sum), NatToWord(1, 64))
                  IN IF ~IsSome(top_sum_1) THEN None
                     ELSE Some(Ipv6Address(Unwrap(top_sum_1), bot_sum))
             ELSE Some(Ipv6Address(Unwrap(top_sum), bot_sum))

Ipv6Address_sub_internal(addrtop64, addrbot64, offtop64, offbot64) ==
    LET bot_diff == wrapping_sub(addrbot64, offbot64)
        is_borrow == WordLt(addrbot64, bot_diff) \/ WordLt(offbot64, bot_diff)
        top_diff == checked_sub(addrtop64, offtop64)
    IN  IF ~IsSome(top_diff) THEN None
        ELSE IF is_borrow
             THEN LET top_diff_1 == checked_sub(Unwrap(top_diff), NatToWord(1, 64))
                  IN IF ~IsSome(top_diff_1) THEN None
                     ELSE Some(Ipv6Address(Unwrap(top_diff_1), bot_diff))
             ELSE Some(Ipv6Address(Unwrap(top_diff), bot_diff))

add_addr(a, other) ==
    IF IsIpv4(a)
    THEN Ipv4Address_add_internal(ZeroExtend(a.addr_value, 64), ZeroExtend(other.addr_value, 64))
    ELSE Ipv6Address_add_internal(a.top_half, a.bottom_half, other.top_half, other.bottom_half)

subtract_addr(a, other) ==
    IF IsIpv4(a)
    THEN LET other64 == ZeroExtend(other.addr_value, 64)
         IN Ipv4Address_add_internal(ZeroExtend(a.addr_value, 64), WordNeg(other64))
    ELSE Ipv6Address_sub_internal(a.top_half, a.bottom_half, other.top_half, other.bottom_half)

\* i32 values
I32(n) == NatToWord(n, 32)
I32_MIN == <<1>> \o Zeros(31)
I32_MAX == <<0>> \o Ones(31)

Ipv4Address_add_offset(a, offset) ==
    Ipv4Address_add_internal(ZeroExtend(a.addr_value, 64), SignExtend(offset, 64))
Ipv4Address_subtract_offset(a, offset) ==
    LET offset64 == SignExtend(offset, 64)
    IN Ipv4Address_add_internal(ZeroExtend(a.addr_value, 64), WordNeg(offset64))

\* -offset on an i32 overflows for i32::MIN: a panic where overflow_checks,
\* i32::MIN again where not.  depth counts the nested calls.
RECURSIVE Ipv6Address_add_offset(_, _, _)
RECURSIVE Ipv6Address_subtract_offset(_, _, _)
Ipv6Address_add_offset(a, offset, depth) ==
    IF depth > MaxCallDepth THEN StackOverflow
    ELSE IF IsNegative(offset)
         THEN IF offset = I32_MIN /\ overflow_checks THEN Panicked
              ELSE Ipv6Address_subtract_offset(a, WordNeg(offset), depth + 1)
         ELSE [tag |-> "ok",
               val |-> Ipv6Address_add_internal(a.top_half, a.bottom_half,
                                                Zeros(64), ZeroExtend(offset, 64))]
Ipv6Address_subtract_offset(a, offset, depth) ==
    IF depth > MaxCallDepth THEN StackOverflow
    ELSE IF IsNegative(offset)
         THEN IF offset = I32_MIN /\ overflow_checks THEN Panicked
              ELSE Ipv6Address_add_offset(a, WordNeg(offset), depth + 1)
         ELSE [tag |-> "ok",
               val |-> Ipv6Address_sub_internal(a.top_half, a.bottom_half,
                                                Zeros(64), ZeroExtend(offset, 64))]

\* the trait methods: the outcome is [tag, val], val the Option returned
add_offset(a, offset) ==
    IF IsIpv4(a) THEN [tag |-> "ok", val |-> Ipv4Address_add_offset(a, offset)]
    ELSE Ipv6Address_add_offset(a, offset, 1)
subtract_offset(a, offset) ==
    IF IsIpv4(a) THEN [tag |-> "ok", val |-> Ipv4Address_subtract_offset(a, offset)]
    ELSE Ipv6Address_subtract_offset(a, offset, 1)

\* the address whose bits are the word w
AddrOfWord(family, w) ==
    IF family = "Ipv4Address" THEN Ipv4Address(w)
    ELSE Ipv6Address(SubSeq(w, 1, 64), SubSeq(w, 65, 128))

-----------------------------------------------------------------------------
(* src/src/cidr.rs                                                         *)

XXX == 9
SUBNET_MASK_BYTE_TO_PREFIX == <<
    0, XXX, XXX, XXX, XXX, XXX, XXX, XXX, XXX, XXX, XXX, XXX, XXX, XXX, XXX, XXX,
    XXX, XXX, XXX, XXX, XXX, XXX, XXX, XXX, XXX, XXX, XXX, XXX, XXX, XXX, XXX, XXX,
    XXX, XXX, XXX, XXX, XXX, XXX, XXX, XXX, XXX, XXX, XXX, XXX, XXX, XXX, XXX, XXX,
    XXX, XXX, XXX, XXX, XXX, XXX, XXX, XXX, XXX, XXX, XXX, XXX, XXX, XXX, XXX, XXX,
    XXX, XXX, XXX, XXX, XXX, XXX, XXX, XXX, XXX, XXX, XXX, XXX, XXX, XXX, XXX, XXX,
    XXX, XXX, XXX, XXX, XXX, XXX, XXX, XXX, XXX, XXX, XXX, XXX, XXX, XXX, XXX, XXX,
    XXX, XXX, XXX, XXX, XXX, XXX, XXX, XXX, XXX, XXX, XXX, XXX, XXX, XXX, XXX, XXX,
    XXX, XXX, XXX, XXX, XXX, XXX, XXX, XXX, XXX, XXX, XXX, XXX, XXX, XXX, XXX, XXX,
    1, XXX, XXX, XXX, XXX, XXX, XXX, XXX, XXX, XXX, XXX, XXX, XXX, XXX, XXX, XXX,
    XXX, XXX, XXX, XXX, XXX, XXX, XXX, XXX, XXX, XXX, XXX, XXX, XXX, XXX, XXX, XXX,
    XXX, XXX, XXX, XXX, XXX, XXX, XXX, XXX, XXX, XXX, XXX, XXX, XXX, XXX, XXX, XXX,
    XXX, XXX, XXX, XXX, XXX, XXX, XXX, XXX, XXX, XXX, XXX, XXX, XXX, XXX, XXX, XXX,
    2, XXX, XXX, XXX, XXX, XXX, XXX, XXX, XXX, XXX, XXX, XXX, XXX, XXX, XXX, XXX,
    XXX, XXX, XXX, XXX, XXX, XXX, XXX, XXX, XXX, XXX, XXX, XXX, XXX, XXX, XXX, XXX,
    3, XXX, XXX, XXX, XXX, XXX, XXX, XXX, XXX, XXX, XXX, XXX, XXX, XXX, XXX, XXX,
    4, XXX, XXX, XXX, XXX, XXX, XXX, XXX, 5, XXX, XXX, XXX, 6, XXX, 7, 8
>>
CIDR_BYTE_TO_PREFIX == <<0, 128, 192, 224, 240, 248, 252, 254, 255>>

\* the loop over the bytes from byte i on, with the loop's ones_over and cidr
RECURSIVE prefix_from_subnet_mask_bytes_from(_, _, _, _)
prefix_from_subnet_mask_bytes_from(bs, i, ones_over, cidr) ==
    IF i > Len(bs) THEN Some(cidr)
    ELSE LET n == SUBNET_MASK_BYTE_TO_PREFIX[bs[i] + 1]
         IN  IF n = XXX THEN None
             ELSE IF n = 8
                  THEN IF ones_over THEN None
                       ELSE prefix_from_subnet_mask_bytes_from(bs, i + 1, ones_over, cidr + 8)
             ELSE IF n = 0
                  THEN prefix_from_subnet_mask_bytes_from(bs, i + 1, TRUE, cidr)
             ELSE IF ones_over THEN None
                  ELSE prefix_from_subnet_mask_bytes_from(bs, i + 1, TRUE, cidr + n)

\* the loop entered with ones_over already set
prefix_from_subnet_mask_bytes_ones_over(bs) ==
    prefix_from_subnet_mask_bytes_from(bs, 1, TRUE, 0)

prefix_from_subnet_mask_bytes(bs) == prefix_from_subnet_mask_bytes_from(bs, 1, FALSE, 0)

\* the first loop, with the bytes pushed so far
RECURSIVE subnet_mask_bytes_ones(_, _, _)
subnet_mask_bytes_ones(prefix, byte_count_, r) ==
    IF UsizeLt(0, prefix) /\ Len(r) < byte_count_
    THEN IF ~UsizeLt(prefix, 8)
         THEN subnet_mask_bytes_ones(prefix - 8, byte_count_, Append(r, 255))
         ELSE Append(r, CIDR_BYTE_TO_PREFIX[prefix + 1])
    ELSE r

\* the first loop alone, without the zero bytes of the second loop
subnet_mask_bytes_unpadded(prefix, byte_count_) ==
    subnet_mask_bytes_ones(prefix, byte_count_, <<>>)

subnet_mask_bytes_from_prefix(prefix, byte_count_) ==
    LET r == subnet_mask_bytes_ones(prefix, byte_count_, <<>>)
    IN r \o AsSeq([i \in 1..(byte_count_ - Len(r)) |-> 0])

-----------------------------------------------------------------------------
(* src/libripcalc/src/bit_manip.rs                                         *)

\* Vec<bool> is a sequence of BOOLEAN
bytes_to_bits(bytes) ==
    AsSeq([i \in 1..(8 * Len(bytes)) |->
        (bytes[((i - 1) \div 8) + 1] \div (2 ^ (7 - ((i - 1) % 8)))) % 2 # 0])

\* the bits of a byte taken least significant first
BitOfByte_lsb_first(bits, i) == IF i < Len(bits) /\ bits[i + 1] THEN 2 ^ (i % 8) ELSE 0

\* what bit i (from 0) adds to its byte
BitOfByte(bits, i) == IF i < Len(bits) /\ bits[i + 1] THEN 2 ^ (7 - (i % 8)) ELSE 0

bits_to_bytes(bits) ==
    LET n == (Len(bits) \div 8) + (IF Len(bits) % 8 # 0 THEN 1 ELSE 0)
    IN AsSeq([k \in 1..n |->
          BitOfByte(bits, 8 * k - 8) + BitOfByte(bits, 8 * k - 7)
        + BitOfByte(bits, 8 * k - 6) + BitOfByte(bits, 8 * k - 5)
        + BitOfByte(bits, 8 * k - 4) + BitOfByte(bits, 8 * k - 3)
        + BitOfByte(bits, 8 * k - 2) + BitOfByte(bits, 8 * k - 1)])

\* the elements of bits at the positions where mask_bits is want, in order
BitsWhere(bits, mask_bits, want) ==
    LET positions == SelectSeq(AsSeq([i \in 1..Len(bits) |-> i]),
                               LAMBDA i : mask_bits[i] = want)
    IN AsSeq([j \in 1..Len(positions) |-> bits[positions[j]]])

unravel_address(addr, subnet_mask) ==
    LET mask_bytes == to_bytes(subnet_mask)
    IN  IF IsSome(prefix_from_subnet_mask_bytes(mask_bytes)) THEN addr
        ELSE LET addr_bits == bytes_to_bits(to_bytes(addr))
                 mask_bits == bytes_to_bits(mask_bytes)
                 net_bits == BitsWhere(addr_bits, mask_bits, TRUE)
                 host_bits == BitsWhere(addr_bits, mask_bits, FALSE)
                 unraveled_bits == net_bits \o host_bits
             IN Unwrap(from_bytes(Family(addr), bits_to_bytes(unraveled_bits)))

\* u8::count_ones
ByteCountOnes(b) ==
    ((b \div 128) % 2) + ((b \div 64) % 2) + ((b \div 32) % 2) + ((b \div 16) % 2)
    + ((b \div 8) % 2) + ((b \div 4) % 2) + ((b \div 2) % 2) + (b % 2)

RECURSIVE SumCountOnes(_)
SumCountOnes(bytes) ==
    IF bytes = <<>> THEN 0 ELSE ByteCountOnes(Head(bytes)) + SumCountOnes(Tail(bytes))

weave_address(addr, subnet_mask) ==
    LET mask_bytes == to_bytes(subnet_mask)
    IN  IF IsSome(prefix_from_subnet_mask_bytes(mask_bytes)) THEN addr
        ELSE LET addr_bits == bytes_to_bits(to_bytes(addr))
                 cidr_prefix == SumCountOnes(mask_bytes)
                 mask_bits == bytes_to_bits(mask_bytes)
                 net_bits == SubSeq(addr_bits, 1, cidr_prefix)
                 host_bits == SubSeq(addr_bits, cidr_prefix + 1, Len(addr_bits))
                 \* net_index and host_index when the loop is at mask bit i
                 net_index(i) == Cardinality({k \in 1..(i - 1) : mask_bits[k]})
                 host_index(i) == Cardinality({k \in 1..(i - 1) : ~mask_bits[k]})
                 ret_bits == AsSeq([i \in 1..Len(mask_bits) |->
                                 IF mask_bits[i] THEN net_bits[net_index(i) + 1]
                                 ELSE host_bits[host_index(i) + 1]])
             IN Unwrap(from_bytes(Family(addr), bits_to_bytes(ret_bits)))

-----------------------------------------------------------------------------
(* src/src/net.rs                                                          *)

IpNetwork(base_addr_, subnet_mask_, cidr_prefix_) ==
    [base_addr |-> base_addr_, subnet_mask |-> subnet_mask_, cidr_prefix |-> cidr_prefix_]

new_with_mask(addr, subnet_mask) ==
    IpNetwork(bitand(addr, subnet_mask), subnet_mask,
              prefix_from_subnet_mask_bytes(to_bytes(subnet_mask)))

new_with_prefix(addr, cidr_prefix) ==
    LET mask_bytes == subnet_mask_bytes_from_prefix(cidr_prefix, byte_count(addr))
        subnet_mask == Unwrap(from_bytes(Family(addr), mask_bytes))
    IN IpNetwork(bitand(addr, subnet_mask), subnet_mask, Some(cidr_prefix))

\* the network returned without comparing its base address with addr
new_with_mask_strict_unchecked(addr, subnet_mask) ==
    Some(new_with_mask(addr, subnet_mask))

new_with_mask_strict(addr, subnet_mask) ==
    LET net == new_with_mask(addr, subnet_mask)
    IN IF net.base_addr = addr THEN Some(net) ELSE None

new_with_prefix_strict(addr, cidr_prefix) ==
    LET net == new_with_prefix(addr, cidr_prefix)
    IN IF net.base_addr = addr THEN Some(net) ELSE None

cisco_wildcard(self) == bitwise_negate(self.subnet_mask)

\* the sum of the count_ones of the wildcard's bytes
host_bits_available(self) == SumCountOnes(to_bytes(cisco_wildcard(self)))

\* the address with one bit fewer than host_bits_available set
host_count_address_one_fewer(self) ==
    LET hca_bytes == subnet_mask_bytes_from_prefix(
                         Len(to_bytes(self.base_addr)) * 8 - host_bits_available(self) + 1,
                         byte_count(self.base_addr))
    IN bitwise_negate(Unwrap(from_bytes(Family(self.base_addr), hca_bytes)))

\* the address with the low host_bits_available bits set
host_count_address(self) ==
    LET hca_bytes == subnet_mask_bytes_from_prefix(
                         Len(to_bytes(self.base_addr)) * 8 - host_bits_available(self),
                         byte_count(self.base_addr))
    IN bitwise_negate(Unwrap(from_bytes(Family(self.base_addr), hca_bytes)))

first_host_addr(self) ==
    IF host_bits_available(self) < 2 THEN None
    ELSE LET unraveled_base == unravel_address(self.base_addr, self.subnet_mask)
             unraveled_first_host == add_offset(unraveled_base, I32(1)).val
         IN IF unraveled_first_host = None THEN None
            ELSE Some(weave_address(Unwrap(unraveled_first_host), self.subnet_mask))

broadcast_addr(self) ==
    IF host_bits_available(self) < 1 THEN None
    ELSE LET unraveled_base == unravel_address(self.base_addr, self.subnet_mask)
             unraveled_broadcast == add_addr(unraveled_base, host_count_address(self))
         IN IF unraveled_broadcast = None THEN None
            ELSE Some(weave_address(Unwrap(unraveled_broadcast), self.subnet_mask))

last_host_addr(self) ==
    IF host_bits_available(self) < 2 THEN None
    ELSE LET unraveled_base == unravel_address(self.base_addr, self.subnet_mask)
             unraveled_broadcast == add_addr(unraveled_base, host_count_address(self))
         IN IF unraveled_broadcast = None THEN None
            ELSE LET unraveled_last_host ==
                         subtract_offset(Unwrap(unraveled_broadcast), I32(1)).val
                 IN IF unraveled_last_host = None THEN None
                    ELSE Some(weave_address(Unwrap(unraveled_last_host), self.subnet_mask))

\* the address after the base address instead of after the last address
next_subnet_base_addr_after_base(self) ==
    LET unraveled_next_base ==
            add_offset(unravel_address(self.base_addr, self.subnet_mask), I32(1)).val
    IN IF unraveled_next_base = None THEN None
       ELSE Some(weave_address(Unwrap(unraveled_next_base), self.subnet_mask))

next_subnet_base_addr(self) ==
    LET unraveled_base == unravel_address(self.base_addr, self.subnet_mask)
        unraveled_broadcast == add_addr(unraveled_base, host_count_address(self))
    IN IF unraveled_broadcast = None THEN None
       ELSE LET unraveled_next_base == add_offset(Unwrap(unraveled_broadcast), I32(1)).val
            IN IF unraveled_next_base = None THEN None
               ELSE Some(weave_address(Unwrap(unraveled_next_base), self.subnet_mask))

last_addr_of_subnet(self) ==
    LET b == broadcast_addr(self) IN IF IsSome(b) THEN Unwrap(b) ELSE self.base_addr

contains(self, addr) == bitand(addr, self.subnet_mask) = self.base_addr

\* the first condition alone: the other base address lies in this network
is_superset_of_base_only(self, other) ==
    bitand(other.base_addr, self.subnet_mask) = self.base_addr

is_superset_of(self, other) ==
    /\ bitand(other.base_addr, self.subnet_mask) = self.base_addr
    /\ bitand(other.subnet_mask, self.subnet_mask) = self.subnet_mask

is_subset_of(self, other) == is_superset_of(other, self)

intersects(self, other) ==
    LET self_first == self.base_addr
        self_last == last_addr_of_subnet(self)
        other_first == other.base_addr
        other_last == last_addr_of_subnet(other)
    IN AddrLe(self_first, other_last) /\ AddrLe(other_first, self_last)

-----------------------------------------------------------------------------
(* src/src/cmds/derange.rs: range_to_subnets, one step for each iteration  *)
(* of its while loop.  locals holds ret, first_addr, last_addr and         *)
(* current_subnet.                                                         *)

\* the first operand whatever the order
AddrMin_first(a, b) == a
AddrMin(a, b) == IF AddrLe(a, b) THEN a ELSE b
AddrMax(a, b) == IF AddrLe(a, b) THEN b ELSE a

\* the statements before the loop
RangeToSubnetsEntry(end_one, end_two) ==
    LET first_addr == AddrMin(end_one, end_two)
        last_addr == AddrMax(end_one, end_two)
    IN [ret |-> <<>>,
        first_addr |-> first_addr,
        last_addr |-> last_addr,
        current_subnet |-> new_with_prefix(first_addr, byte_count(last_addr) * 8)]

\* the function is entered
RangeToSubnetsCall ==
    /\ fn = "none"
    /\ fn' = "range_to_subnets:while"
    /\ locals' = RangeToSubnetsEntry(args[1], args[2])
    /\ UNCHANGED <<args, ret, overflow_checks>>

\* the function is entered again with the two ends exchanged; the outcome
\* of the earlier call is kept after the arguments
RangeToSubnetsCallSwapped ==
    /\ fn = "range_to_subnets"
    /\ Len(args) = 2
    /\ fn' = "range_to_subnets:while"
    /\ args' = <<args[2], args[1], ret>>
    /\ locals' = RangeToSubnetsEntry(args[2], args[1])
    /\ UNCHANGED <<ret, overflow_checks>>

\* one iteration of the loop
RangeToSubnetsLoop ==
    /\ fn = "range_to_subnets:while"
    /\ AddrLe(locals.first_addr, locals.last_addr)
    /\ \/ ~UsizeLt(byte_count(locals.last_addr) * 8,
                    Unwrap(locals.current_subnet.cidr_prefix))
       \/ ~UsizeLt(Unwrap(locals.current_subnet.cidr_prefix), USIZE_MAX - WrapSteps)
    /\ LET prefix == Unwrap(locals.current_subnet.cidr_prefix)
           larger_subnet == new_with_prefix(locals.first_addr, prefix - 1)
           next_base == next_subnet_base_addr(locals.current_subnet)
       IN IF UsizeLt(prefix, 1) /\ overflow_checks
          THEN \* attempt to subtract with overflow
               fn' = "range_to_subnets" /\ ret' = Panicked /\ locals' = <<>>
          ELSE IF \/ larger_subnet.base_addr # locals.first_addr
                  \/ AddrLt(locals.last_addr, last_addr_of_subnet(larger_subnet))
          THEN IF next_base = None
               THEN \* unwrap of None
                    fn' = "range_to_subnets" /\ ret' = Panicked /\ locals' = <<>>
               ELSE /\ locals' =
                         [locals EXCEPT
                            !.ret = Append(@, locals.current_subnet),
                            !.first_addr = Unwrap(next_base),
                            !.current_subnet =
                                new_with_prefix(Unwrap(next_base),
                                                byte_count(locals.last_addr) * 8)]
                    /\ UNCHANGED <<fn, ret>>
          ELSE /\ locals' = [locals EXCEPT !.current_subnet = larger_subnet]
               /\ UNCHANGED <<fn, ret>>
    /\ UNCHANGED <<args, overflow_checks>>

\* the loop's condition is false: the function returns ret
RangeToSubnetsReturn ==
    /\ fn = "range_to_subnets:while"
    /\ ~AddrLe(locals.first_addr, locals.last_addr)
    /\ fn' = "range_to_subnets"
    /\ ret' = [tag |-> "ok", val |-> Some(locals.ret)]
    /\ locals' = <<>>
    /\ UNCHANGED <<args, overflow_checks>>

-----------------------------------------------------------------------------
(* src/src/cmds/minimize.rs                                                *)

\* the key of sort_unstable_by_key: (base_addr, subnet_mask)
KeyLt(a, b) ==
    \/ AddrLt(a.base_addr, b.base_addr)
    \/ a.base_addr = b.base_addr /\ AddrLt(a.subnet_mask, b.subnet_mask)

\* sort_unstable_by_key leaves elements with equal keys in any order: the
\* set of the orders it may leave
sort_unstable_by_key(subnets) ==
    {sorted \in {AsSeq([i \in DOMAIN subnets |-> subnets[perm[i]]]) :
                    perm \in Permutations(DOMAIN subnets)} :
        \A i \in DOMAIN sorted, j \in DOMAIN sorted :
            i < j => ~KeyLt(sorted[j], sorted[i])}

\* the elements of the HashSet collected, in whatever order it iterates, and
\* sorted
CollectSorted(filtered_subnets) ==
    sort_unstable_by_key(
        CHOOSE collected \in [1..Cardinality(filtered_subnets) -> filtered_subnets] :
            \A x \in filtered_subnets : \E i \in DOMAIN collected : collected[i] = x)

\* what the loops that eliminate subnets remove from the HashSet
EliminatedSubnets(subnets) ==
    {subnets[j] : j \in {j \in DOMAIN subnets :
        \E i \in 1..(j - 1) :
            is_superset_of(subnets[i], subnets[j]) /\ subnets[i] # subnets[j]}}

\* the inner loop's body reaches "adjacent!" and the one-bit check passes
Joinable(subnets, i, j) ==
    /\ subnets[i].subnet_mask = subnets[j].subnet_mask
    /\ LET last_ip_plus_one == next_subnet_base_addr(subnets[i])
       IN IsSome(last_ip_plus_one) => Unwrap(last_ip_plus_one) = subnets[j].base_addr
    /\ count_ones(bitxor(subnets[i].base_addr, subnets[j].base_addr)) <= 1

JoinedSubnet(subnets, i, j) ==
    LET differ_bit_address == bitxor(subnets[i].base_addr, subnets[j].base_addr)
        new_subnet_mask == bitand(subnets[i].subnet_mask, bitwise_negate(differ_bit_address))
    IN new_with_mask(subnets[i].base_addr, new_subnet_mask)

\* the pairs the for loops would join, and the one they reach first
JoinablePairs(subnets) ==
    {p \in (DOMAIN subnets) \X (DOMAIN subnets) :
        p[1] < p[2] /\ Joinable(subnets, p[1], p[2])}
FirstPair(pairs) ==
    CHOOSE p \in pairs : \A q \in pairs : p[1] < q[1] \/ (p[1] = q[1] /\ p[2] <= q[2])

\* the while loop, from the state of the HashSet at the start of an
\* iteration: the set of the outcomes it may have
RECURSIVE JoinLoop(_)

\* the rest of the loop's body once subnets[i] and subnets[j] are joined
JoinBody(filtered_subnets, subnet_i, subnet_j, new_subnet) ==
    IF ~(is_superset_of(new_subnet, subnet_i) /\ is_superset_of(new_subnet, subnet_j))
    THEN {Panicked}
    ELSE JoinLoop((filtered_subnets \ {subnet_i, subnet_j}) \cup {new_subnet})

\* the for loops over the sorted subnets, whose joinable pairs are pairs
JoinPairs(filtered_subnets, subnets, pairs) ==
    IF pairs = {} THEN {[tag |-> "ok", val |-> Some(subnets)]}
    ELSE JoinBody(filtered_subnets,
                  subnets[FirstPair(pairs)[1]], subnets[FirstPair(pairs)[2]],
                  JoinedSubnet(subnets, FirstPair(pairs)[1], FirstPair(pairs)[2]))

JoinSorted(filtered_subnets, subnets) ==
    JoinPairs(filtered_subnets, subnets, JoinablePairs(subnets))

JoinLoop(filtered_subnets) ==
    UNION {JoinSorted(filtered_subnets, subnets) : subnets \in CollectSorted(filtered_subnets)}

\* the function after its first sort has left subnets
MinimizeSorted(subnets) ==
    JoinLoop({subnets[i] : i \in DOMAIN subnets} \ EliminatedSubnets(subnets))

\* the set of the outcomes the call may have
minimize_subnets(subnets_) ==
    UNION {MinimizeSorted(subnets) : subnets \in sort_unstable_by_key(subnets_)}

-----------------------------------------------------------------------------
(* src/src/cmds/resize.rs: resize_network.  The result is the pair of the  *)
(* networks and the Ordering, "Less", "Equal" or "Greater".                *)

\* the supernet branch with the initial mask kept
ResizeSupernet_initial_mask(initial_net, new_subnet_mask) ==
    <<new_with_mask(initial_net.base_addr, initial_net.subnet_mask)>>

\* the supernet branch
ResizeSupernet(initial_net, new_subnet_mask) ==
    LET new_net_bits == count_ones(new_subnet_mask)
        unraveled_initial_base_addr ==
            unravel_address(initial_net.base_addr, initial_net.subnet_mask)
        unraveled_shortened_net ==
            new_with_prefix(unraveled_initial_base_addr, new_net_bits)
        woven_new_base_addr ==
            weave_address(unraveled_shortened_net.base_addr, new_subnet_mask)
    IN <<new_with_mask(woven_new_base_addr, new_subnet_mask)>>

\* the samenet branch
ResizeSamenet(initial_net, new_subnet_mask) ==
    LET unraveled_base_addr ==
            unravel_address(initial_net.base_addr, initial_net.subnet_mask)
        woven_new_base_addr == weave_address(unraveled_base_addr, new_subnet_mask)
    IN <<new_with_mask(woven_new_base_addr, new_subnet_mask)>>

\* the network the loop's body pushes
ResizedNet(current_unraveled_base_addr, new_subnet_mask) ==
    new_with_mask(weave_address(current_unraveled_base_addr, new_subnet_mask),
                  new_subnet_mask)

\* the loop breaks after every network
NextUnraveledBase_break(new_net) == None

\* the loop's next current_unraveled_base_addr; None when the loop breaks
NextUnraveledBase(new_net) ==
    IF IsSome(next_subnet_base_addr(new_net))
    THEN Some(unravel_address(Unwrap(next_subnet_base_addr(new_net)), new_net.subnet_mask))
    ELSE None

\* the while loop of the subnets branch, with the networks pushed so far
RECURSIVE ResizeSubnets(_, _, _, _)
ResizeSubnets(current_unraveled_base_addr, unraveled_last_addr, new_subnet_mask, nets) ==
    IF ~AddrLe(current_unraveled_base_addr, unraveled_last_addr) THEN nets
    ELSE IF NextUnraveledBase(ResizedNet(current_unraveled_base_addr, new_subnet_mask)) = None
    THEN Append(nets, ResizedNet(current_unraveled_base_addr, new_subnet_mask))
    ELSE ResizeSubnets(
             Unwrap(NextUnraveledBase(ResizedNet(current_unraveled_base_addr, new_subnet_mask))),
             unraveled_last_addr, new_subnet_mask,
             Append(nets, ResizedNet(current_unraveled_base_addr, new_subnet_mask)))

resize_network(initial_net, new_subnet_mask) ==
    LET initial_host_bits == count_zeros(initial_net.subnet_mask)
        new_host_bits == count_zeros(new_subnet_mask)
    IN IF new_host_bits > initial_host_bits
       THEN <<ResizeSupernet(initial_net, new_subnet_mask), "Less">>
       ELSE IF new_host_bits = initial_host_bits
       THEN <<ResizeSamenet(initial_net, new_subnet_mask), "Equal">>
       ELSE <<ResizeSubnets(
                  unravel_address(initial_net.base_addr, initial_net.subnet_mask),
                  unravel_address(last_addr_of_subnet(initial_net), initial_net.subnet_mask),
                  new_subnet_mask, <<>>),
              "Greater">>

-----------------------------------------------------------------------------
(* src/src/cmds/split.rs: split_subnet, one step for each iteration of its *)
(* loops.  A BigInt is a two's complement word of BigBits bits, wide       *)
(* enough for every count of addresses; locals holds the rest of           *)
(* indexes_and_host_counts (pairs of a 0-based index and a count),         *)
(* index_to_subnet (a set of pairs) and current_net.                       *)

BigBits == 136
BigInt(n) == IF n < 0 THEN WordNeg(NatToWord(-n, BigBits)) ELSE NatToWord(n, BigBits)
BigLt(x, y) == IF x[1] # y[1] THEN x[1] = 1 ELSE WordLt(x, y)

\* net.rs: 1 doubled once for every one-bit of the wildcard
address_count(self) ==
    Zeros(BigBits - 1 - host_bits_available(self)) \o <<1>> \o Zeros(host_bits_available(self))

host_count(self) == wrapping_sub(address_count(self), BigInt(2))

\* the descending sort leaves equal counts in any order: the set of the
\* orders it may leave
sort_unstable_by(indexes_and_host_counts) ==
    {sorted \in {AsSeq([k \in DOMAIN indexes_and_host_counts |->
                          indexes_and_host_counts[perm[k]]]) :
                    perm \in Permutations(DOMAIN indexes_and_host_counts)} :
        \A a \in DOMAIN sorted, b \in DOMAIN sorted :
            a < b => ~BigLt(sorted[a][2], sorted[b][2])}

\* the function is entered: the statements before the for loop
SplitSubnetCall ==
    /\ fn = "none"
    /\ fn' = "split_subnet:for"
    /\ \E sorted \in sort_unstable_by(
                        AsSeq([k \in DOMAIN args[2] |-> <<k - 1, args[2][k]>>])) :
          locals' = [indexes_and_host_counts |-> sorted,
                     index_to_subnet |-> {},
                     current_net |->
                         new_with_prefix(args[1].base_addr,
                                         byte_count(args[1].subnet_mask) * 8)]
    /\ UNCHANGED <<args, ret, overflow_checks>>

\* the condition of the while loop if it compared the count of addresses
SplitWhile_addresses ==
    /\ BigLt(address_count(locals.current_net), locals.indexes_and_host_counts[1][2])
    /\ Unwrap(locals.current_net.cidr_prefix) # 0

\* the condition of the while loop, with its break
SplitWhile ==
    /\ BigLt(host_count(locals.current_net), locals.indexes_and_host_counts[1][2])
    /\ Unwrap(locals.current_net.cidr_prefix) # 0

\* one iteration of the while loop
SplitSubnetWhile ==
    /\ fn = "split_subnet:for"
    /\ locals.indexes_and_host_counts # <<>>
    /\ SplitWhile
    /\ locals' = [locals EXCEPT
                    !.current_net =
                        new_with_prefix(locals.current_net.base_addr,
                                        Unwrap(locals.current_net.cidr_prefix) - 1)]
    /\ UNCHANGED <<fn, args, ret, overflow_checks>>

\* the rest of the for loop's body once the while loop is left
SplitSubnetInsert ==
    /\ fn = "split_subnet:for"
    /\ locals.indexes_and_host_counts # <<>>
    /\ ~SplitWhile
    /\ IF \/ Unwrap(locals.current_net.cidr_prefix) = 0
          \/ next_subnet_base_addr(locals.current_net) = None
       THEN fn' = "split_subnet" /\ ret' = None /\ locals' = <<>>
       ELSE /\ locals' =
                 [indexes_and_host_counts |-> Tail(locals.indexes_and_host_counts),
                  index_to_subnet |->
                      locals.index_to_subnet
                          \cup {<<locals.indexes_and_host_counts[1][1], locals.current_net>>},
                  current_net |->
                      new_with_prefix(Unwrap(next_subnet_base_addr(locals.current_net)),
                                      byte_count(locals.current_net.subnet_mask) * 8)]
            /\ UNCHANGED <<fn, ret>>
    /\ UNCHANGED <<args, overflow_checks>>

\* the for loop is over: the subnets in the order of their indexes
SplitSubnetReturn ==
    /\ fn = "split_subnet:for"
    /\ locals.indexes_and_host_counts = <<>>
    /\ fn' = "split_subnet"
    /\ ret' = Some(AsSeq([k \in 1..Cardinality(locals.index_to_subnet) |->
                    (CHOOSE e \in locals.index_to_subnet : e[1] = k - 1)[2]]))
    /\ locals' = <<>>
    /\ UNCHANGED <<args, overflow_checks>>

-----------------------------------------------------------------------------
(* src/src/cmds/enumerate.rs: NetworkIter.  locals holds the iterator      *)
(* (self) and the values its calls of next have returned so far, in order. *)

NetworkIter_new(network) ==
    [is_empty |-> FALSE,
     unraveled_addr |-> unravel_address(network.base_addr, network.subnet_mask),
     last_unraveled_addr |->
         unravel_address(last_addr_of_subnet(network), network.subnet_mask),
     subnet_mask |-> network.subnet_mask]

\* next without is_empty: the address stays when add_offset has no result
NetworkIter_next_stay(self) ==
    IF AddrLt(self.last_unraveled_addr, self.unraveled_addr) THEN <<self, None>>
    ELSE <<[self EXCEPT !.unraveled_addr =
                IF IsSome(add_offset(self.unraveled_addr, I32(1)).val)
                THEN Unwrap(add_offset(self.unraveled_addr, I32(1)).val)
                ELSE self.unraveled_addr],
           Some(weave_address(self.unraveled_addr, self.subnet_mask))>>

\* next: the iterator after the call and the value returned
NetworkIter_next(self) ==
    IF self.is_empty THEN <<self, None>>
    ELSE IF AddrLt(self.last_unraveled_addr, self.unraveled_addr) THEN <<self, None>>
    ELSE <<IF IsSome(add_offset(self.unraveled_addr, I32(1)).val)
           THEN [self EXCEPT !.unraveled_addr =
                                Unwrap(add_offset(self.unraveled_addr, I32(1)).val)]
           ELSE [self EXCEPT !.is_empty = TRUE],
           Some(weave_address(self.unraveled_addr, self.subnet_mask))>>

NetworkIterNew ==
    /\ fn = "none"
    /\ fn' = "NetworkIter::new"
    /\ locals' = [self |-> NetworkIter_new(args[1]), returned |-> <<>>]
    /\ UNCHANGED <<args, ret, overflow_checks>>

NetworkIterNext ==
    /\ fn \in {"NetworkIter::new", "NetworkIter::next"}
    /\ Len(locals.returned) < MaxIterCalls
    /\ fn' = "NetworkIter::next"
    /\ locals' = [self |-> NetworkIter_next(locals.self)[1],
                  returned |-> Append(locals.returned, NetworkIter_next(locals.self)[2])]
    /\ ret' = NetworkIter_next(locals.self)[2]
    /\ UNCHANGED <<args, overflow_checks>>

-----------------------------------------------------------------------------
(* src/src/addr.rs: Display and FromStr of Ipv6Address.  A string is the   *)
(* sequence of its characters; a Result is [Ok |-> value] or               *)
(* [Err |-> error].                                                        *)

EmptyString == <<>>
Ok(v) == [Ok |-> v]
Err(e) == [Err |-> e]
IsOk(r) == "Ok" \in DOMAIN r

to_chunks(self) ==
    AsSeq([i \in 1..8 |->
        256 * WordToBytes(SubSeq(AddrWord(self), 16 * i - 15, 16 * i))[1]
            + WordToBytes(SubSeq(AddrWord(self), 16 * i - 15, 16 * i))[2]])

\* format!("{:x}", n)
HexDigits == <<"0", "1", "2", "3", "4", "5", "6", "7",
               "8", "9", "a", "b", "c", "d", "e", "f">>
RECURSIVE format_x(_)
format_x(n) ==
    IF n < 16 THEN <<HexDigits[n + 1]>>
    ELSE format_x(n \div 16) \o <<HexDigits[(n % 16) + 1]>>

RECURSIVE join(_, _)
join(strings, separator) ==
    IF strings = <<>> THEN <<>>
    ELSE IF Len(strings) = 1 THEN strings[1]
    ELSE strings[1] \o separator \o join(Tail(strings), separator)

\* the inner while loop of fmt: the index j it stops at (chunks[i] is zero)
ZeroRunEnd(chunks, i) ==
    CHOOSE j \in (i + 1)..8 :
        /\ j = 8 \/ chunks[j + 1] # 0
        /\ \A k \in (i + 1)..(j - 1) : chunks[k + 1] = 0

\* the outer while loop of fmt, from index i: zero_index and zero_length
RECURSIVE LongestZeroRun(_, _, _, _)
LongestZeroRun(chunks, i, zero_index, zero_length) ==
    IF i >= 8 THEN <<zero_index, zero_length>>
    ELSE IF chunks[i + 1] # 0
    THEN LongestZeroRun(chunks, i + 1, zero_index, zero_length)
    ELSE IF zero_length < ZeroRunEnd(chunks, i) - i
    THEN LongestZeroRun(chunks, ZeroRunEnd(chunks, i), Some(i), ZeroRunEnd(chunks, i) - i)
    ELSE LongestZeroRun(chunks, ZeroRunEnd(chunks, i), zero_index, zero_length)

\* the second while loop of fmt, from index i: the strings pushed
RECURSIVE chunk_strings(_, _, _, _)
chunk_strings(chunks, i, zero_index, zero_length) ==
    IF i >= 8 THEN <<>>
    ELSE IF zero_index = Some(i)
    THEN (IF i = 0 THEN <<EmptyString>> ELSE <<>>) \o <<EmptyString>>
            \o (IF i + zero_length = 8 THEN <<EmptyString>> ELSE <<>>)
            \o chunk_strings(chunks, i + zero_length, zero_index, zero_length)
    ELSE <<format_x(chunks[i + 1])>>
            \o chunk_strings(chunks, i + 1, zero_index, zero_length)

fmt(self) ==
    IF self.top_half = Zeros(64) /\ self.bottom_half = Zeros(64) THEN <<":", ":">>
    ELSE join(chunk_strings(to_chunks(self), 0,
                            LongestZeroRun(to_chunks(self), 0, None, 0)[1],
                            LongestZeroRun(to_chunks(self), 0, None, 0)[2]),
              <<":">>)

\* addr_str.split(":")
split(addr_str, separator) ==
    LET cuts == <<0>> \o SelectSeq(AsSeq([i \in 1..Len(addr_str) |-> i]),
                                   LAMBDA i : addr_str[i] = separator)
                     \o <<Len(addr_str) + 1>>
    IN AsSeq([k \in 1..(Len(cuts) - 1) |-> SubSeq(addr_str, cuts[k] + 1, cuts[k + 1] - 1)])

\* u16::from_str_radix(chunk, 16) of the standard library: an optional plus
\* sign, then hexadecimal digits of either case, their value below 2^16
HexValue(c) ==
    CASE c \in {"0", "1", "2", "3", "4", "5", "6", "7", "8", "9"} ->
            Some((CHOOSE d \in 1..10 : HexDigits[d] = c) - 1)
      [] c \in {"a", "b", "c", "d", "e", "f"} ->
            Some((CHOOSE d \in 11..16 : HexDigits[d] = c) - 1)
      [] c \in {"A", "B", "C", "D", "E", "F"} ->
            Some((CHOOSE d \in 11..16 :
                    HexDigits[d] = <<"a", "b", "c", "d", "e", "f">>[
                        CHOOSE u \in 1..6 : <<"A", "B", "C", "D", "E", "F">>[u] = c]) - 1)
      [] OTHER -> None
RECURSIVE from_str_radix_digits(_, _)
from_str_radix_digits(digits, value) ==
    IF digits = <<>> THEN Ok(value)
    ELSE IF HexValue(Head(digits)) = None THEN Err("InvalidDigit")
    ELSE IF value * 16 + Unwrap(HexValue(Head(digits))) > 65535 THEN Err("PosOverflow")
    ELSE from_str_radix_digits(Tail(digits), value * 16 + Unwrap(HexValue(Head(digits))))
from_str_radix(chunk) ==
    IF chunk = <<>> THEN Err("Empty")
    ELSE IF chunk = <<"+">> THEN Err("InvalidDigit")
    ELSE IF Head(chunk) = "+" THEN from_str_radix_digits(Tail(chunk), 0)
    ELSE from_str_radix_digits(chunk, 0)

\* the front and the back of chunks copied over eight "0" strings
ShortenedChunks(chunks) ==
    LET front == CHOOSE n \in 0..Len(chunks) :
                    /\ n = Len(chunks) \/ chunks[n + 1] = EmptyString
                    /\ \A i \in 1..n : chunks[i] # EmptyString
        back == CHOOSE n \in 0..Len(chunks) :
                    /\ n = Len(chunks) \/ chunks[Len(chunks) - n] = EmptyString
                    /\ \A i \in 1..n : chunks[Len(chunks) - i + 1] # EmptyString
    IN AsSeq([j \in 1..8 |->
            IF j > 8 - back THEN chunks[Len(chunks) - (8 - j)]
            ELSE IF j <= front THEN chunks[j]
            ELSE <<"0">>])

\* the last loop of from_str: the address of the chunks, or the error of
\* the first chunk that does not parse
AddressOfChunks(actual_chunks) ==
    IF \E i \in 1..8 : ~IsOk(from_str_radix(actual_chunks[i]))
    THEN LET i == CHOOSE i \in 1..8 :
                    /\ ~IsOk(from_str_radix(actual_chunks[i]))
                    /\ \A k \in 1..(i - 1) : IsOk(from_str_radix(actual_chunks[k]))
         IN Err(<<"ChunkParseError", i - 1, from_str_radix(actual_chunks[i]).Err>>)
    ELSE Ok(AddrOfWord("Ipv6Address",
                NatToWord(from_str_radix(actual_chunks[1]).Ok, 16)
             \o NatToWord(from_str_radix(actual_chunks[2]).Ok, 16)
             \o NatToWord(from_str_radix(actual_chunks[3]).Ok, 16)
             \o NatToWord(from_str_radix(actual_chunks[4]).Ok, 16)
             \o NatToWord(from_str_radix(actual_chunks[5]).Ok, 16)
             \o NatToWord(from_str_radix(actual_chunks[6]).Ok, 16)
             \o NatToWord(from_str_radix(actual_chunks[7]).Ok, 16)
             \o NatToWord(from_str_radix(actual_chunks[8]).Ok, 16)))

from_str(s) ==
    LET addr_str == (IF s # <<>> /\ Head(s) = ":" THEN <<"0">> ELSE <<>>) \o s
                       \o (IF s # <<>> /\ s[Len(s)] = ":" THEN <<"0">> ELSE <<>>)
        chunks == split(addr_str, ":")
        shortening_count == Cardinality({i \in DOMAIN chunks : chunks[i] = EmptyString})
    IN IF Len(chunks) > 8 THEN Err(<<"IncorrectChunkCount", Len(chunks), 8>>)
       ELSE IF shortening_count > 1
       THEN Err(<<"TooManyShorteningElements", shortening_count, 1>>)
       ELSE IF shortening_count = 0
       THEN IF Len(chunks) # 8 THEN Err(<<"IncorrectChunkCount", Len(chunks), 8>>)
            ELSE AddressOfChunks(chunks)
       ELSE AddressOfChunks(ShortenedChunks(chunks))

\* format!("{}", addr): the string is kept as the second argument
DisplayFmt ==
    /\ fn = "none"
    /\ fn' = "fmt"
    /\ ret' = fmt(args[1])
    /\ UNCHANGED <<args, overflow_checks, locals>>

\* the string parsed
FromStr ==
    /\ fn = "fmt"
    /\ fn' = "from_str"
    /\ args' = <<args[1], ret>>
    /\ ret' = from_str(ret)
    /\ UNCHANGED <<overflow_checks, locals>>

-----------------------------------------------------------------------------
(* Operands of the arithmetic: words within EdgeSpan of 0 and of the       *)
(* maximum, and offsets within EdgeSpan of 0, i32::MIN and i32::MAX.       *)

EdgeWords(w) ==
    {NatToWord(i, w) : i \in 0..EdgeSpan} \cup {WordNot(NatToWord(i, w)) : i \in 0..EdgeSpan}
ArithAddrs(family) ==
    IF family = "Ipv4Address"
    THEN {Ipv4Address(v) : v \in EdgeWords(32)}
    ELSE {Ipv6Address(t, b) : t \in EdgeWords(64), b \in EdgeWords(64)}
ArithOffsets ==
    EdgeWords(32)
    \cup {wrapping_add(I32_MIN, I32(i)) : i \in 0..EdgeSpan}
    \cup {wrapping_sub(I32_MAX, I32(i)) : i \in 0..EdgeSpan}
Families == {"Ipv4Address", "Ipv6Address"}

InitArith ==
    /\ fn = "none"
    /\ ret = None
    /\ overflow_checks \in BOOLEAN
    /\ locals = <<>>
    /\ \E family \in Families :
         \/ \E a \in ArithAddrs(family), b \in ArithAddrs(family) : args = <<a, b>>
         \/ \E a \in ArithAddrs(family), d \in ArithOffsets : args = <<a, d>>

\* the second argument is an address
AddrArgs == DOMAIN args[2] = DOMAIN args[1]

AddAddr ==
    /\ fn = "none" /\ AddrArgs
    /\ fn' = "add_addr"
    /\ ret' = add_addr(args[1], args[2])
    /\ UNCHANGED <<args, overflow_checks, locals>>

SubtractAddr ==
    /\ fn = "none" /\ AddrArgs
    /\ fn' = "subtract_addr"
    /\ ret' = subtract_addr(args[1], args[2])
    /\ UNCHANGED <<args, overflow_checks, locals>>

AddOffset ==
    /\ fn = "none" /\ ~AddrArgs
    /\ fn' = "add_offset"
    /\ ret' = add_offset(args[1], args[2])
    /\ UNCHANGED <<args, overflow_checks, locals>>

SubtractOffset ==
    /\ fn = "none" /\ ~AddrArgs
    /\ fn' = "subtract_offset"
    /\ ret' = subtract_offset(args[1], args[2])
    /\ UNCHANGED <<args, overflow_checks, locals>>

NextArith == AddAddr \/ SubtractAddr \/ AddOffset \/ SubtractOffset

SpecArith == InitArith /\ [][NextArith]_vars

-----------------------------------------------------------------------------
(* Addresses and masks for the bit manipulation and the network queries:   *)
(* every word whose WindowBits highest and WindowBits lowest bits are      *)
(* arbitrary and whose other bits are all equal, and the addresses and     *)
(* masks of the tests of net.rs.                                           *)

Bits(k) == {AsSeq(b) : b \in [1..k -> {0, 1}]}
Fill(f, n) == AsSeq([i \in 1..n |-> f])
WindowWords(w) ==
    {h \o Fill(f, w - 2 * WindowBits) \o l : h \in Bits(WindowBits), l \in Bits(WindowBits), f \in {0, 1}}

RECURSIVE ChunksToBytes(_)
ChunksToBytes(chunks) ==
    IF chunks = <<>> THEN <<>>
    ELSE <<Head(chunks) \div 256, Head(chunks) % 256>> \o ChunksToBytes(Tail(chunks))
ParsedIpv4(bytes) == Unwrap(from_bytes("Ipv4Address", bytes))
ParsedIpv6(chunks) == Unwrap(from_bytes("Ipv6Address", ChunksToBytes(chunks)))

\* 127.0.0.1, 1.2.3.4, 255.0.0.0, 255.0.255.0
TestIpv4 ==
    {ParsedIpv4(<<127, 0, 0, 1>>), ParsedIpv4(<<1, 2, 3, 4>>),
     ParsedIpv4(<<255, 0, 0, 0>>), ParsedIpv4(<<255, 0, 255, 0>>)}
\* fe80::1, 1234:1234:1234:1234:1234:1234:1234:1234, ffc0::,
\* ffff:0:ffff:0:0:ffff:0:ffff, ffff:ffff:ffff:ffff::
TestIpv6 ==
    {ParsedIpv6(<<65152, 0, 0, 0, 0, 0, 0, 1>>),
     ParsedIpv6(<<4660, 4660, 4660, 4660, 4660, 4660, 4660, 4660>>),
     ParsedIpv6(<<65472, 0, 0, 0, 0, 0, 0, 0>>),
     ParsedIpv6(<<65535, 0, 65535, 0, 0, 65535, 0, 65535>>),
     ParsedIpv6(<<65535, 65535, 65535, 65535, 0, 0, 0, 0>>)}

NetAddrs(family) ==
    IF family = "Ipv4Address"
    THEN {Ipv4Address(v) : v \in WindowWords(32)} \cup TestIpv4
    ELSE {AddrOfWord(family, v) : v \in WindowWords(128)} \cup TestIpv6

InitBitManip ==
    /\ fn = "none"
    /\ ret = None
    /\ overflow_checks \in BOOLEAN
    /\ locals = <<>>
    /\ \E family \in Families :
         \E addr \in NetAddrs(family), subnet_mask \in NetAddrs(family) :
            args = <<addr, subnet_mask>>

UnravelAddress ==
    /\ fn = "none"
    /\ fn' = "unravel_address"
    /\ ret' = unravel_address(args[1], args[2])
    /\ UNCHANGED <<args, overflow_checks, locals>>

WeaveAddress ==
    /\ fn = "none"
    /\ fn' = "weave_address"
    /\ ret' = weave_address(args[1], args[2])
    /\ UNCHANGED <<args, overflow_checks, locals>>

NextBitManip == UnravelAddress \/ WeaveAddress

SpecBitManip == InitBitManip /\ [][NextBitManip]_vars

-----------------------------------------------------------------------------
(* The queries of a network built by new_with_mask from a sampled address  *)
(* and a sampled mask.                                                     *)

InitNet ==
    /\ fn = "none"
    /\ ret = None
    /\ overflow_checks \in BOOLEAN
    /\ locals = <<>>
    /\ \E family \in Families :
         \E addr \in NetAddrs(family), subnet_mask \in NetAddrs(family) :
            args = <<new_with_mask(addr, subnet_mask)>>

FirstHostAddr ==
    /\ fn = "none"
    /\ fn' = "first_host_addr"
    /\ ret' = first_host_addr(args[1])
    /\ UNCHANGED <<args, overflow_checks, locals>>

BroadcastAddr ==
    /\ fn = "none"
    /\ fn' = "broadcast_addr"
    /\ ret' = broadcast_addr(args[1])
    /\ UNCHANGED <<args, overflow_checks, locals>>

LastHostAddr ==
    /\ fn = "none"
    /\ fn' = "last_host_addr"
    /\ ret' = last_host_addr(args[1])
    /\ UNCHANGED <<args, overflow_checks, locals>>

NextSubnetBaseAddr ==
    /\ fn = "none"
    /\ fn' = "next_subnet_base_addr"
    /\ ret' = next_subnet_base_addr(args[1])
    /\ UNCHANGED <<args, overflow_checks, locals>>

NextNet == FirstHostAddr \/ BroadcastAddr \/ LastHostAddr \/ NextSubnetBaseAddr

SpecNet == InitNet /\ [][NextNet]_vars

-----------------------------------------------------------------------------
(* The ends of the ranges: two addresses of one block (the addresses that *)
(* differ only in their RangeBits lowest bits) at the bottom or at the top *)
(* of the address space, and the whole address space.                      *)

\* the words with the bit f above k arbitrary lowest bits
BlockWords(f, w, k) == {Fill(f, w - k) \o l : l \in Bits(k)}
BlockAddrs(f, family, k) ==
    {AddrOfWord(family, v) : v \in BlockWords(f, IF family = "Ipv4Address" THEN 32 ELSE 128, k)}
ZeroAddr(family) == AddrOfWord(family, Zeros(IF family = "Ipv4Address" THEN 32 ELSE 128))
MaxAddr(family) == bitwise_negate(ZeroAddr(family))

InitDerange ==
    /\ fn = "none"
    /\ ret = None
    /\ overflow_checks \in BOOLEAN
    /\ locals = <<>>
    /\ \E family \in Families :
         \/ \E f \in {0, 1} :
              \E end_one \in BlockAddrs(f, family, RangeBits),
                 end_two \in BlockAddrs(f, family, RangeBits) :
                 args = <<end_one, end_two>>
         \/ args = <<ZeroAddr(family), MaxAddr(family)>>

NextDerange ==
    \/ RangeToSubnetsCall
    \/ RangeToSubnetsLoop
    \/ RangeToSubnetsReturn
    \/ RangeToSubnetsCallSwapped

SpecDerange == InitDerange /\ [][NextDerange]_vars

-----------------------------------------------------------------------------
(* The networks to minimize: up to MaxNets networks of one family, each    *)
(* built by new_with_mask from an address and a mask that vary in their    *)
(* MergeBits lowest bits, the mask with ones above them, or built by       *)
(* new_with_prefix from a prefix above the width.                          *)

MergeNets(family) ==
    {new_with_mask(addr, subnet_mask) :
        addr \in BlockAddrs(0, family, MergeBits) \cup BlockAddrs(1, family, MergeBits),
        subnet_mask \in BlockAddrs(1, family, MergeBits)}

\* networks built by new_with_prefix from a prefix above the family's width
OversizeNets(family) ==
    {new_with_prefix(addr, 8 * byte_count(addr) + 1) : addr \in BlockAddrs(0, family, MergeBits)}

InitMinimize ==
    /\ fn = "none"
    /\ ret = None
    /\ overflow_checks \in BOOLEAN
    /\ locals = <<>>
    /\ \E family \in Families, n \in 0..MaxNets :
         \E subnets \in [1..n -> MergeNets(family) \cup OversizeNets(family)] :
            args = <<AsSeq(subnets)>>

MinimizeSubnets ==
    /\ fn = "none"
    /\ fn' = "minimize_subnets"
    /\ ret' \in minimize_subnets(args[1])
    /\ UNCHANGED <<args, overflow_checks, locals>>

NextMinimize == MinimizeSubnets

SpecMinimize == InitMinimize /\ [][NextMinimize]_vars

-----------------------------------------------------------------------------
(* The relations between two networks of one family: the networks to       *)
(* minimize, and networks whose mask has zeros above the MergeBits lowest  *)
(* bits (the whole address space among them).                              *)

PairNets(family) ==
    MergeNets(family) \cup
    {new_with_mask(addr, subnet_mask) :
        addr \in BlockAddrs(0, family, MergeBits) \cup BlockAddrs(1, family, MergeBits),
        subnet_mask \in BlockAddrs(0, family, MergeBits)}

InitNetPair ==
    /\ fn = "none"
    /\ ret = None
    /\ overflow_checks \in BOOLEAN
    /\ locals = <<>>
    /\ \E family \in Families :
         \E self \in PairNets(family), other \in PairNets(family) :
            args = <<self, other>>

IsSupersetOf ==
    /\ fn = "none"
    /\ fn' = "is_superset_of"
    /\ ret' = is_superset_of(args[1], args[2])
    /\ UNCHANGED <<args, overflow_checks, locals>>

IsSubsetOf ==
    /\ fn = "none"
    /\ fn' = "is_subset_of"
    /\ ret' = is_subset_of(args[1], args[2])
    /\ UNCHANGED <<args, overflow_checks, locals>>

Intersects ==
    /\ fn = "none"
    /\ fn' = "intersects"
    /\ ret' = intersects(args[1], args[2])
    /\ UNCHANGED <<args, overflow_checks, locals>>

NextNetPair == IsSupersetOf \/ IsSubsetOf \/ Intersects

SpecNetPair == InitNetPair /\ [][NextNetPair]_vars

-----------------------------------------------------------------------------
(* The conversions between masks and prefixes. The byte sequences: up to   *)
(* MaxMaskBytes sampled bytes with any byte at one place, 4 and 16 bytes   *)
(* of ones, any byte, then zeros, and the sampled addresses. The prefixes: *)
(* from 0 to ExcessPrefix above the number of bits, and the highest usize  *)
(* values.                                                                  *)

SampleBytes == {0, 1, 128, 254, 255}
ByteCounts == (0..MaxMaskBytes) \cup {byte_count(ZeroAddr(family)) : family \in Families}
MaskBytes ==
    UNION {{[AsSeq(bs) EXCEPT ![i] = b] : bs \in [1..n -> SampleBytes], i \in 1..n, b \in 0..255} :
              n \in 0..MaxMaskBytes}
    \cup {<<>>}
    \cup UNION {{Fill(255, i - 1) \o <<b>> \o Fill(0, n - i) : i \in 1..n, b \in 0..255} :
                    n \in ByteCounts}
    \cup UNION {{to_bytes(a) : a \in NetAddrs(family)} : family \in Families}

InitCidr ==
    /\ fn = "none"
    /\ ret = None
    /\ overflow_checks \in BOOLEAN
    /\ locals = <<>>
    /\ \/ \E bs \in MaskBytes : args = <<bs>>
       \/ \E byte_count_ \in ByteCounts :
            \E prefix \in (0..(8 * byte_count_ + ExcessPrefix))
                            \cup ((USIZE_MAX - ExcessPrefix)..USIZE_MAX) :
               args = <<prefix, byte_count_>>

PrefixFromSubnetMaskBytes ==
    /\ fn = "none"
    /\ Len(args) = 1
    /\ fn' = "prefix_from_subnet_mask_bytes"
    /\ ret' = prefix_from_subnet_mask_bytes(args[1])
    /\ UNCHANGED <<args, overflow_checks, locals>>

SubnetMaskBytesFromPrefix ==
    /\ fn = "none"
    /\ Len(args) = 2
    /\ fn' = "subnet_mask_bytes_from_prefix"
    /\ ret' = subnet_mask_bytes_from_prefix(args[1], args[2])
    /\ UNCHANGED <<args, overflow_checks, locals>>

NextCidr == PrefixFromSubnetMaskBytes \/ SubnetMaskBytesFromPrefix

SpecCidr == InitCidr /\ [][NextCidr]_vars

-----------------------------------------------------------------------------
(* The constructors of a network, from a sampled address and either a      *)
(* sampled mask or a prefix: every prefix from 0 to ExcessPrefix above the *)
(* family's number of bits, and the highest usize values. The arguments    *)
(* are held by name.                                                       *)

InitNew ==
    /\ fn = "none"
    /\ ret = None
    /\ overflow_checks \in BOOLEAN
    /\ locals = <<>>
    /\ \E family \in Families :
         \E addr \in NetAddrs(family) :
            \/ \E subnet_mask \in NetAddrs(family) :
                 args = [addr |-> addr, subnet_mask |-> subnet_mask]
            \/ \E cidr_prefix \in (0..(8 * byte_count(addr) + ExcessPrefix))
                                    \cup ((USIZE_MAX - ExcessPrefix)..USIZE_MAX) :
                 args = [addr |-> addr, cidr_prefix |-> cidr_prefix]

NewWithMask ==
    /\ fn = "none"
    /\ "subnet_mask" \in DOMAIN args
    /\ fn' = "new_with_mask"
    /\ ret' = new_with_mask(args.addr, args.subnet_mask)
    /\ UNCHANGED <<args, overflow_checks, locals>>

NewWithPrefix ==
    /\ fn = "none"
    /\ "cidr_prefix" \in DOMAIN args
    /\ fn' = "new_with_prefix"
    /\ ret' = new_with_prefix(args.addr, args.cidr_prefix)
    /\ UNCHANGED <<args, overflow_checks, locals>>

NewWithMaskStrict ==
    /\ fn = "none"
    /\ "subnet_mask" \in DOMAIN args
    /\ fn' = "new_with_mask_strict"
    /\ ret' = new_with_mask_strict(args.addr, args.subnet_mask)
    /\ UNCHANGED <<args, overflow_checks, locals>>

NewWithPrefixStrict ==
    /\ fn = "none"
    /\ "cidr_prefix" \in DOMAIN args
    /\ fn' = "new_with_prefix_strict"
    /\ ret' = new_with_prefix_strict(args.addr, args.cidr_prefix)
    /\ UNCHANGED <<args, overflow_checks, locals>>

NextNew == NewWithMask \/ NewWithPrefix \/ NewWithMaskStrict \/ NewWithPrefixStrict

SpecNew == InitNew /\ [][NextNew]_vars

-----------------------------------------------------------------------------
(* The networks to resize and the masks to resize them to: the networks of *)
(* PairNets and those with a prefix above the width with the masks of      *)
(* PairNets, and the networks and masks of test_resize_ipv4; the target    *)
(* mask has at most MaxResizeBits host bits fewer than the network.        *)

\* 192.0.2.0/24 with 255.255.255.0, 255.0.255.255, 255.255.255.192,
\* 255.255.192.255, 255.255.0.0, 255.0.255.0
TestResize ==
    {<<new_with_prefix(ParsedIpv4(<<192, 0, 2, 0>>), 24), ParsedIpv4(m)>> :
        m \in {<<255, 255, 255, 0>>, <<255, 0, 255, 255>>, <<255, 255, 255, 192>>,
               <<255, 255, 192, 255>>, <<255, 255, 0, 0>>, <<255, 0, 255, 0>>}}

ResizeArgs ==
    {a \in TestResize \cup
           UNION {(PairNets(family) \cup OversizeNets(family))
                     \X {net.subnet_mask : net \in PairNets(family)} : family \in Families} :
        count_zeros(a[1].subnet_mask) - count_zeros(a[2]) <= MaxResizeBits}

InitResize ==
    /\ fn = "none"
    /\ ret = None
    /\ overflow_checks \in BOOLEAN
    /\ locals = <<>>
    /\ args \in ResizeArgs

ResizeNetwork ==
    /\ fn = "none"
    /\ fn' = "resize_network"
    /\ ret' = resize_network(args[1], args[2])
    /\ UNCHANGED <<args, overflow_checks, locals>>

NextResize == ResizeNetwork

SpecResize == InitResize /\ [][NextResize]_vars

-----------------------------------------------------------------------------
(* The networks to split: a prefix up to MergeBits below the width at the  *)
(* bottom and at the top of the address space.  The host counts: up to     *)
(* MaxRequests counts that a few host bits satisfy, or one count that      *)
(* needs the whole address space or more, alone or after a small one.      *)

SplitNets(family) ==
    {new_with_prefix(addr, 8 * byte_count(addr) - k) :
        addr \in BlockAddrs(0, family, MergeBits) \cup BlockAddrs(1, family, MergeBits),
        k \in 0..MergeBits}
SmallCounts == {BigInt(0), BigInt(2), BigInt(6)}
WholeSpaceCounts(family) ==
    {host_count(new_with_prefix(ZeroAddr(family), 0)),
     address_count(new_with_prefix(ZeroAddr(family), 0))}

InitSplit ==
    /\ fn = "none"
    /\ ret = None
    /\ overflow_checks \in BOOLEAN
    /\ locals = <<>>
    /\ \E family \in Families :
         \E subnet \in SplitNets(family) :
            \/ \E n \in 0..MaxRequests :
                 \E host_counts \in [1..n -> SmallCounts] :
                    args = <<subnet, AsSeq(host_counts)>>
            \/ \E whole \in WholeSpaceCounts(family) :
                 \/ args = <<subnet, <<whole>>>>
                 \/ args = <<subnet, <<BigInt(2), whole>>>>

NextSplit == SplitSubnetCall \/ SplitSubnetWhile \/ SplitSubnetInsert \/ SplitSubnetReturn

SpecSplit == InitSplit /\ [][NextSplit]_vars

-----------------------------------------------------------------------------
(* The networks to iterate over: built by new_with_mask from a sampled     *)
(* address and a sampled mask with at most MaxIterBits zero bits, and the  *)
(* networks of the tests of enumerate.rs.                                  *)

\* 192.0.2.64/28, 192.64.2.0/255.240.255.255, 2001:db8::10/124,
\* 2001:db8::1042/ffff:ffff:ffff:ffff:ffff:ffff:ffff:f0ff
TestEnumerate ==
    {new_with_prefix(ParsedIpv4(<<192, 0, 2, 64>>), 28),
     new_with_mask(ParsedIpv4(<<192, 64, 2, 0>>), ParsedIpv4(<<255, 240, 255, 255>>)),
     new_with_prefix(ParsedIpv6(<<8193, 3512, 0, 0, 0, 0, 0, 16>>), 124),
     new_with_mask(ParsedIpv6(<<8193, 3512, 0, 0, 0, 0, 0, 4162>>),
                   ParsedIpv6(<<65535, 65535, 65535, 65535, 65535, 65535, 65535, 61695>>))}

IterNets ==
    {net \in TestEnumerate \cup
             UNION {{new_with_mask(addr, subnet_mask) :
                        addr \in NetAddrs(family), subnet_mask \in NetAddrs(family)} :
                    family \in Families} :
        count_zeros(net.subnet_mask) <= MaxIterBits}

InitIter ==
    /\ fn = "none"
    /\ ret = None
    /\ overflow_checks \in BOOLEAN
    /\ locals = <<>>
    /\ \E network \in IterNets : args = <<network>>

NextIter == NetworkIterNew \/ NetworkIterNext

SpecIter == InitIter /\ [][NextIter]_vars

-----------------------------------------------------------------------------
(* The addresses to print and parse: every address whose 16-bit chunks are *)
(* 0, a (one digit) or fe80 (four digits), and the addresses of the tests. *)

SampleChunks == {0, 10, 65152}
TextAddrs ==
    {ParsedIpv6(AsSeq(chunks)) : chunks \in [1..8 -> SampleChunks]} \cup TestIpv6

InitText ==
    /\ fn = "none"
    /\ ret = None
    /\ overflow_checks \in BOOLEAN
    /\ locals = <<>>
    /\ \E addr \in TextAddrs : args = <<addr>>

NextText == DisplayFmt \/ FromStr

SpecText == InitText /\ [][NextText]_vars

-----------------------------------------------------------------------------
(* The arithmetic the claims refer to: the operands as unsigned integers   *)
(* of the family's whole width (one addition over all the bytes), and the  *)
(* offset as a signed number, on a width one byte larger than the address. *)

MathAdd(a, b) ==
    LET r == AddWithCarry(AddrWord(a), AddrWord(b), 0)
    IN IF r.carry = 1 THEN None ELSE Some(AddrOfWord(Family(a), r.sum))

MathSub(a, b) ==
    IF WordLt(AddrWord(a), AddrWord(b)) THEN None
    ELSE Some(AddrOfWord(Family(a), AddWithCarry(AddrWord(a), WordNot(AddrWord(b)), 1).sum))

\* a + d (sign = 1) or a - d (sign = -1), None when outside [0, 2^(8*byte_count) - 1]
MathOffset(a, d, sign) ==
    LET w == 8 * byte_count(a) + 8
        x == ZeroExtend(AddrWord(a), w)
        y == SignExtend(d, w)
        r == IF sign = 1 THEN AddWithCarry(x, y, 0).sum ELSE AddWithCarry(x, WordNot(y), 1).sum
    IN IF SubSeq(r, 1, 8) # Zeros(8) THEN None
       ELSE Some(AddrOfWord(Family(a), SubSeq(r, 9, w)))

\* C5: subtract_addr returns Some(a - b) when a >= b and None otherwise, for
\* both families (for Ipv6Address: the borrow from the high half is taken
\* exactly when the low half of a is smaller than the low half of b).
C5_SubtractAddrIsDifference ==
    fn = "subtract_addr" => ret = MathSub(args[1], args[2])

\* C6: add_addr returns Some(a + b) when the sum fits the family's width and
\* None otherwise, for both families (for Ipv6Address: the carry out of the
\* low half goes into the high half; an overflow of the high half is None).
C6_AddAddrIsSum ==
    fn = "add_addr" => ret = MathAdd(args[1], args[2])

\* an Ipv6Address addition that carried out of the low half and returned
C6_Witness ==
    /\ fn = "add_addr" /\ ~IsIpv4(args[1]) /\ IsSome(ret)
    /\ WordLt(ret[1].bottom_half, args[1].bottom_half)
    /\ args[1].top_half # Zeros(64)

\* C7: for every address and every i32 offset d, add_offset(d) returns
\* Some(a + d) when that is an address and None otherwise, subtract_offset(d)
\* returns what add_offset of -d would, and both calls return.
C7_OffsetsAreSignedSums ==
    /\ fn = "add_offset" =>
         ret.tag = "ok" /\ ret.val = MathOffset(args[1], args[2], 1)
    /\ fn = "subtract_offset" =>
         ret.tag = "ok" /\ ret.val = MathOffset(args[1], args[2], -1)

\* a mask with a zero bit above a one bit
IsMixedMask(subnet_mask) == prefix_from_subnet_mask_bytes(to_bytes(subnet_mask)) = None

\* C1: for every address a and mask m of one family, weaving the unravelled
\* address gives a back and unravelling the woven address gives a back; when
\* m is CIDR-contiguous both functions return a unchanged.
C1_WeaveUnravelInverse ==
    /\ fn = "unravel_address" =>
         /\ weave_address(ret, args[2]) = args[1]
         /\ ~IsMixedMask(args[2]) => ret = args[1]
    /\ fn = "weave_address" =>
         /\ unravel_address(ret, args[2]) = args[1]
         /\ ~IsMixedMask(args[2]) => ret = args[1]

\* an address that a mixed mask really moved the bits of
C1_Witness ==
    /\ fn = "weave_address"
    /\ IsMixedMask(args[2])
    /\ ret # args[1]
    /\ unravel_address(ret, args[2]) = args[1]

\* base_addr | cisco_wildcard: the base address with every host bit set
BaseWithHostBitsSet(net) == bitor(net.base_addr, cisco_wildcard(net))

\* weave(unravel(x) + d), d = 1 or -1, in the arithmetic of the whole width
WovenNeighbour(net, x, sign) ==
    LET r == MathOffset(unravel_address(x, net.subnet_mask), I32(1), sign)
    IN IF r = None THEN None ELSE Some(weave_address(Unwrap(r), net.subnet_mask))

\* C8: first_host_addr and last_host_addr are None exactly when the mask has
\* fewer than two zero bits; otherwise the first host is weave(unravel(base) + 1)
\* and the last host is weave(unravel(broadcast) - 1).
C8_HostAddrs ==
    /\ fn = "first_host_addr" =>
         ret = IF count_zeros(args[1].subnet_mask) < 2 THEN None
               ELSE WovenNeighbour(args[1], args[1].base_addr, 1)
    /\ fn = "last_host_addr" =>
         ret = IF count_zeros(args[1].subnet_mask) < 2 THEN None
               ELSE WovenNeighbour(args[1], BaseWithHostBitsSet(args[1]), -1)

\* C9: broadcast_addr is None exactly when the mask has no zero bit, and
\* otherwise Some(base_addr | cisco_wildcard), for contiguous and mixed masks.
C9_BroadcastIsBaseOrWildcard ==
    fn = "broadcast_addr" =>
        ret = IF count_zeros(args[1].subnet_mask) = 0 THEN None
              ELSE Some(BaseWithHostBitsSet(args[1]))

\* the broadcast address of an Ipv6Address network with a mixed mask
C9_Witness ==
    /\ fn = "broadcast_addr"
    /\ ~IsIpv4(args[1].base_addr)
    /\ IsMixedMask(args[1].subnet_mask)
    /\ IsSome(ret)
    /\ Unwrap(ret) # args[1].base_addr

\* C10: whenever first_host_addr, last_host_addr or broadcast_addr returns
\* Some(x), the network contains x and base_addr <= x <= last_addr_of_subnet.
C10_ReturnedAddrsAreInside ==
    (fn \in {"first_host_addr", "last_host_addr", "broadcast_addr"} /\ IsSome(ret)) =>
        /\ contains(args[1], Unwrap(ret))
        /\ AddrLe(args[1].base_addr, Unwrap(ret))
        /\ AddrLe(Unwrap(ret), last_addr_of_subnet(args[1]))

\* the addresses a cover is examined at: both blocks of the family
ProbeAddrs(a) ==
    BlockAddrs(0, Family(a), RangeBits) \cup BlockAddrs(1, Family(a), RangeBits)
InRange(a, end_one, end_two) ==
    AddrLe(AddrMin(end_one, end_two), a) /\ AddrLe(a, AddrMax(end_one, end_two))
\* how many of the networks contain a
CoverCount(nets, a) == Cardinality({i \in 1..Len(nets) : contains(nets[i], a)})

\* C2: range_to_subnets(x, y) returns networks that cover exactly the range
\* [min(x, y), max(x, y)]: every address of the range is in exactly one
\* returned network and no returned network has an address outside the range.
C2_RangeCoveredExactly ==
    fn = "range_to_subnets" =>
        /\ ret.tag = "ok"
        /\ \A a \in ProbeAddrs(args[1]) :
             CoverCount(Unwrap(ret.val), a) = IF InRange(a, args[1], args[2]) THEN 1 ELSE 0

\* an address of both networks, among all the addresses of the two blocks
\* the networks to minimize lie in
Overlap(n1, n2) ==
    \E a \in BlockAddrs(0, Family(n1.base_addr), MergeBits)
             \cup BlockAddrs(1, Family(n1.base_addr), MergeBits) :
        contains(n1, a) /\ contains(n2, a)

\* same mask, n2 begins where n1 ends, and the bases differ in one bit
MergeAdjacent(n1, n2) ==
    /\ n1.subnet_mask = n2.subnet_mask
    /\ next_subnet_base_addr(n1) = Some(n2.base_addr)
    /\ count_ones(bitxor(n1.base_addr, n2.base_addr)) = 1

\* C3: the output of minimize_subnets is pairwise non-overlapping and has no
\* two merge-adjacent networks, for contiguous and mixed masks.
C3_MinimizedIsDisjointAndUnmergeable ==
    fn = "minimize_subnets" =>
        /\ ret.tag = "ok"
        /\ LET out == Unwrap(ret.val)
           IN \A i \in DOMAIN out, j \in DOMAIN out :
                i # j => ~Overlap(out[i], out[j]) /\ ~MergeAdjacent(out[i], out[j])

\* C4: minimize_subnets is idempotent: minimizing its output returns the
\* output unchanged.
C4_MinimizeIdempotent ==
    fn = "minimize_subnets" =>
        /\ ret.tag = "ok"
        /\ minimize_subnets(Unwrap(ret.val)) = {ret}

\* C11: next_subnet_base_addr is None exactly when all the network bits of
\* the base address are 1; otherwise it is Some(n) with
\* n = weave(unravel(last_addr_of_subnet) + 1), n & subnet_mask = n, and n
\* outside the network.
C11_NextSubnetBase ==
    fn = "next_subnet_base_addr" =>
        IF args[1].base_addr = args[1].subnet_mask
        THEN ret = None
        ELSE /\ ret = WovenNeighbour(args[1], last_addr_of_subnet(args[1]), 1)
             /\ IsSome(ret)
             /\ bitand(Unwrap(ret), args[1].subnet_mask) = Unwrap(ret)
             /\ ~contains(args[1], Unwrap(ret))

\* the network after an Ipv6Address network with a mixed mask and host bits
C11_Witness ==
    /\ fn = "next_subnet_base_addr"
    /\ ~IsIpv4(args[1].base_addr)
    /\ IsMixedMask(args[1].subnet_mask)
    /\ IsSome(ret)
    /\ Unwrap(ret) # Unwrap(WovenNeighbour(args[1], args[1].base_addr, 1))

\* the addresses that tell the networks of PairNets apart: every value of
\* the MergeBits lowest bits below zeros and below ones
PairAddrs(net) ==
    BlockAddrs(0, Family(net.base_addr), MergeBits)
        \cup BlockAddrs(1, Family(net.base_addr), MergeBits)
AddrsOf(net) == {x \in PairAddrs(net) : contains(net, x)}

\* C12: A.is_superset_of(B) is true if and only if every address contained in
\* B is contained in A, for any masks; and A.is_superset_of(B) equals
\* B.is_subset_of(A).
C12_SupersetIsContainment ==
    /\ fn = "is_superset_of" =>
          /\ ret = (AddrsOf(args[2]) \subseteq AddrsOf(args[1]))
          /\ ret = is_subset_of(args[2], args[1])
    /\ fn = "is_subset_of" =>
          /\ ret = (AddrsOf(args[1]) \subseteq AddrsOf(args[2]))
          /\ ret = is_superset_of(args[2], args[1])

\* a network with a mixed mask that is a superset of a different network
C12_Witness ==
    /\ fn = "is_superset_of"
    /\ ret = TRUE
    /\ args[1] # args[2]
    /\ IsMixedMask(args[1].subnet_mask)

\* C13: A.intersects(B) is true if and only if at least one address is
\* contained in both A and B, mixed masks included.
C13_IntersectsIsCommonAddress ==
    fn = "intersects" => ret = (AddrsOf(args[1]) \cap AddrsOf(args[2]) # {})

\* bit i (from 1, most significant first) of a byte sequence
MaskBit(bs, i) == (bs[((i - 1) \div 8) + 1] \div (2 ^ (7 - ((i - 1) % 8)))) % 2
\* the k for which bs is k one-bits followed only by zero-bits
OnesThenZeros(bs) ==
    {k \in 0..(8 * Len(bs)) :
        \A i \in 1..(8 * Len(bs)) : MaskBit(bs, i) = IF i <= k THEN 1 ELSE 0}

\* C14: prefix_from_subnet_mask_bytes(bs) is Some(k) exactly when the bits of
\* bs are k one-bits followed only by zero-bits, None otherwise; and for
\* p in 0..=8n, prefix_from_subnet_mask_bytes(subnet_mask_bytes_from_prefix(p, n))
\* is Some(p).
C14_PrefixOfMask ==
    /\ fn = "prefix_from_subnet_mask_bytes" =>
          /\ \A k \in OnesThenZeros(args[1]) : ret = Some(k)
          /\ OnesThenZeros(args[1]) = {} => ret = None
    /\ (fn = "subnet_mask_bytes_from_prefix" /\ 0 <= args[1] /\ args[1] <= 8 * args[2]) =>
          prefix_from_subnet_mask_bytes(ret) = Some(args[1])

\* sixteen bytes whose prefix ends inside a byte
C14_Witness ==
    /\ fn = "prefix_from_subnet_mask_bytes"
    /\ Len(args[1]) = 16
    /\ IsSome(ret)
    /\ Unwrap(ret) % 8 = 3

\* C15: subnet_mask_bytes_from_prefix(p, n) returns exactly n bytes whose first
\* min(p, 8n) bits are 1 and whose other bits are 0; a prefix above 8n gives
\* n bytes of 0xFF.
C15_MaskOfPrefix ==
    fn = "subnet_mask_bytes_from_prefix" =>
        /\ Len(ret) = args[2]
        /\ \A i \in 1..(8 * args[2]) :
              MaskBit(ret, i) = IF UsizeLt(args[1], i) THEN 0 ELSE 1
        /\ UsizeLt(8 * args[2], args[1]) => ret = Fill(255, args[2])

\* a prefix above the number of bits of four bytes
C15_Witness ==
    /\ fn = "subnet_mask_bytes_from_prefix"
    /\ args[2] = 4
    /\ UsizeLt(8 * args[2], args[1])
    /\ Len(ret) = 4

\* the mask the constructor was given, or the mask of the prefix it was
\* given: as many one-bits as the prefix says, at most the whole width
GivenMask ==
    IF "subnet_mask" \in DOMAIN args THEN args.subnet_mask
    ELSE AddrOfWord(Family(args.addr),
                    AsSeq([i \in 1..(8 * byte_count(args.addr)) |->
                              IF UsizeLt(args.cidr_prefix, i) THEN 0 ELSE 1]))
\* the network a constructor has returned, if any
Constructed ==
    IF fn \in {"new_with_mask", "new_with_prefix"} THEN Some(ret)
    ELSE IF fn \in {"new_with_mask_strict", "new_with_prefix_strict"} THEN ret
    ELSE None

\* C16: every network produced by a constructor satisfies
\* base_addr & subnet_mask = base_addr, building a network again from that
\* base address and mask gives the same base address, and the strict
\* constructors return Some exactly when the address equals address & mask.
C16_BaseIsMasked ==
    /\ \A net \in {Constructed[i] : i \in 1..Len(Constructed)} :
          /\ net.subnet_mask = GivenMask
          /\ net.base_addr = bitand(args.addr, GivenMask)
          /\ bitand(net.base_addr, net.subnet_mask) = net.base_addr
          /\ new_with_mask(net.base_addr, net.subnet_mask).base_addr = net.base_addr
    /\ fn \in {"new_with_mask_strict", "new_with_prefix_strict"} =>
          IsSome(ret) = (args.addr = bitand(args.addr, GivenMask))
    /\ fn \in {"new_with_mask", "new_with_prefix"} => IsSome(Constructed)

\* new_with_prefix_strict accepts a non-zero base address with a prefix
\* inside a byte
C16_Witness ==
    /\ fn = "new_with_prefix_strict"
    /\ IsSome(ret)
    /\ args.cidr_prefix % 8 = 1
    /\ count_ones(args.addr) > 0

\* C17: for every network built by any constructor, prefixes above the
\* family's width included, cidr_prefix equals prefix_from_subnet_mask_bytes
\* of its mask, so that it equals the network new_with_mask builds from the
\* same base address and mask.
C17_PrefixIsOfMask ==
    \A net \in {Constructed[i] : i \in 1..Len(Constructed)} :
        /\ net.cidr_prefix = prefix_from_subnet_mask_bytes(to_bytes(net.subnet_mask))
        /\ net = new_with_mask(net.base_addr, net.subnet_mask)

\* the mask of k one-bits for the family of a
MaskOfPrefix(a, k) ==
    AddrOfWord(Family(a), Fill(1, k) \o Fill(0, 8 * byte_count(a) - k))
\* the network has a contiguous mask of k > 0 bits and, with k - 1 bits, would
\* begin below its base address or end above hi; or it is the whole space
MaximalBelow(net, hi) ==
    \E k \in 0..(8 * byte_count(hi)) :
        /\ net.subnet_mask = MaskOfPrefix(hi, k)
        /\ net.cidr_prefix = Some(k)
        /\ k > 0 =>
              LET wider_mask == MaskOfPrefix(hi, k - 1)
              IN \/ bitand(net.base_addr, wider_mask) # net.base_addr
                 \/ AddrLt(hi, bitor(net.base_addr, bitwise_negate(wider_mask)))

\* C18: every network range_to_subnets returns is CIDR-contiguous and
\* maximal (one prefix bit fewer would change its base address or put its
\* last address above the high end of the range), the networks are in
\* strictly ascending order of base address, and
\* range_to_subnets(x, y) = range_to_subnets(y, x).
C18_MaximalAscendingSymmetric ==
    fn = "range_to_subnets" =>
        /\ ret.tag = "ok" =>
              LET nets == Unwrap(ret.val)
              IN /\ \A i \in 1..Len(nets) :
                       MaximalBelow(nets[i], AddrMax(args[1], args[2]))
                 /\ \A i \in 1..Len(nets), j \in 1..Len(nets) :
                       i < j => AddrLt(nets[i].base_addr, nets[j].base_addr)
        /\ Len(args) = 3 => ret = args[3]

\* both orders of two different ends have returned three networks or more
C18_Witness ==
    /\ fn = "range_to_subnets"
    /\ Len(args) = 3
    /\ args[1] # args[2]
    /\ ret.tag = "ok"
    /\ Len(Unwrap(ret.val)) >= 3

\* C19: range_to_subnets terminates and returns without panicking for every
\* pair of addresses of one family, the ranges that end at the highest
\* address and the whole address space included: no call ends in a panic,
\* and the prefix of current_subnet never leaves 0..=width inside the loop.
C19_ReturnsWithoutPanic ==
    /\ fn = "range_to_subnets" => ret.tag = "ok"
    /\ fn = "range_to_subnets:while" =>
          ~UsizeLt(8 * byte_count(locals.last_addr),
                   Unwrap(locals.current_subnet.cidr_prefix))

\* the orders of a list
Reordered(subnets) ==
    {AsSeq([i \in DOMAIN subnets |-> subnets[perm[i]]]) : perm \in Permutations(DOMAIN subnets)}

\* C20: minimize_subnets returns the same list for every permutation of its
\* input and for the input with an entry repeated, and the returned list is
\* duplicate-free and sorted ascending by (base address, subnet mask).
C20_OrderIndependentSorted ==
    fn = "minimize_subnets" =>
        /\ \A subnets \in Reordered(args[1]) : minimize_subnets(subnets) = {ret}
        /\ \A i \in DOMAIN args[1] :
              minimize_subnets(Append(args[1], args[1][i])) = {ret}
        /\ ret.tag = "ok" =>
              LET out == Unwrap(ret.val)
              IN \A i \in DOMAIN out, j \in DOMAIN out :
                    i < j => out[i] # out[j] /\ ~KeyLt(out[j], out[i])

\* the number of zero bits of a mask, counted bit by bit
ZeroBits(subnet_mask) ==
    Cardinality({i \in DOMAIN AddrWord(subnet_mask) : AddrWord(subnet_mask)[i] = 0})
\* the last address of a network with a contiguous mask
IntervalEnd(net) == bitor(net.base_addr, bitwise_negate(net.subnet_mask))

\* C21: resize_network returns Less with exactly one network when the target
\* mask has more zero bits than the original mask, Equal with exactly one
\* network when it has as many, Greater otherwise; resizing a network to its
\* own mask returns exactly that network with Equal.
C21_ResizeTags ==
    fn = "resize_network" =>
        /\ ZeroBits(args[2]) > ZeroBits(args[1].subnet_mask) =>
              ret[2] = "Less" /\ Len(ret[1]) = 1
        /\ ZeroBits(args[2]) = ZeroBits(args[1].subnet_mask) =>
              ret[2] = "Equal" /\ Len(ret[1]) = 1
        /\ ZeroBits(args[2]) < ZeroBits(args[1].subnet_mask) => ret[2] = "Greater"
        /\ args[2] = args[1].subnet_mask => ret = <<<<args[1]>>, "Equal">>

\* C22: with the tag Greater, resize_network returns 2^(h_old - h_new)
\* networks, all with the target mask, each one's base the previous one's
\* next_subnet_base_addr; when both masks are CIDR-contiguous they partition
\* the original network's addresses, also at the top of the address space.
C22_SubnetsChainAndPartition ==
    (fn = "resize_network" /\ ret[2] = "Greater") =>
        LET nets == ret[1]
        IN /\ Len(nets) = 2 ^ (ZeroBits(args[1].subnet_mask) - ZeroBits(args[2]))
           /\ \A i \in DOMAIN nets : nets[i].subnet_mask = args[2]
           /\ \A i \in 1..(Len(nets) - 1) :
                 next_subnet_base_addr(nets[i]) = Some(nets[i + 1].base_addr)
           /\ (~IsMixedMask(args[1].subnet_mask) /\ ~IsMixedMask(args[2])) =>
                 /\ nets[1].base_addr = args[1].base_addr
                 /\ IntervalEnd(nets[Len(nets)]) = IntervalEnd(args[1])
                 /\ \A i \in 1..(Len(nets) - 1) :
                       MathOffset(IntervalEnd(nets[i]), I32(1), 1) = Some(nets[i + 1].base_addr)
                 /\ \A x \in PairAddrs(args[1]) :
                       CoverCount(nets, x) = IF contains(args[1], x) THEN 1 ELSE 0

\* four subnets of a network that ends at the highest address, both masks
\* contiguous
C22_Witness ==
    /\ fn = "resize_network"
    /\ ret[2] = "Greater"
    /\ Len(ret[1]) = 4
    /\ ~IsMixedMask(args[1].subnet_mask)
    /\ ~IsMixedMask(args[2])
    /\ count_zeros(IntervalEnd(args[1])) = 0

\* C29: when the original network and the target mask are CIDR-contiguous
\* and the target prefix is shorter, the one network returned (tag Less)
\* is a superset of the original network and has the target mask.
C29_SupernetContains ==
    (/\ fn = "resize_network"
     /\ ~IsMixedMask(args[1].subnet_mask)
     /\ ~IsMixedMask(args[2])
     /\ ZeroBits(args[2]) > ZeroBits(args[1].subnet_mask)) =>
        /\ ret[2] = "Less"
        /\ Len(ret[1]) = 1
        /\ ret[1][1].subnet_mask = args[2]
        /\ is_superset_of(ret[1][1], args[1])
        /\ AddrsOf(args[1]) \subseteq AddrsOf(ret[1][1])
        /\ contains(ret[1][1], args[1].base_addr)
        /\ contains(ret[1][1], IntervalEnd(args[1]))

\* a supernet of an Ipv6Address network with another base address
C29_Witness ==
    /\ fn = "resize_network"
    /\ ret[2] = "Less"
    /\ ~IsIpv4(args[2])
    /\ ~IsMixedMask(args[1].subnet_mask)
    /\ ~IsMixedMask(args[2])
    /\ ret[1][1].base_addr # args[1].base_addr

-----------------------------------------------------------------------------
(* src/src/cmds/split.rs                                                   *)

SplitReturned == fn = "split_subnet" /\ IsSome(ret)
Narrower(net) == new_with_prefix(net.base_addr, Unwrap(net.cidr_prefix) + 1)

\* C23: whenever split_subnet returns Some(result), result has one network
\* for each request, in the order of the requests; the network of a request
\* has at least as many hosts as requested, and the network one prefix bit
\* narrower at the same base would have fewer hosts than requested.
C23_SmallestSufficient ==
    SplitReturned =>
        /\ Len(Unwrap(ret)) = Len(args[2])
        /\ \A i \in DOMAIN args[2] :
              /\ ~BigLt(host_count(Unwrap(ret)[i]), args[2][i])
              /\ Unwrap(Unwrap(ret)[i].cidr_prefix) < 8 * byte_count(args[1].base_addr)
                    => BigLt(host_count(Narrower(Unwrap(ret)[i])), args[2][i])

\* three requests of different sizes, given out of order, have been served
C23_Witness ==
    /\ SplitReturned
    /\ Len(args[2]) = 3
    /\ BigLt(args[2][1], args[2][2])
    /\ BigLt(args[2][3], args[2][1])
    /\ \A i \in 1..3 :
          Unwrap(Unwrap(ret)[i].cidr_prefix) < 8 * byte_count(args[1].base_addr)

\* the allocations of a returned result taken in the order perm of the
\* requests: the counts descend, the first network starts at the base of
\* the network to split, each later one where the one before ends
DescendingChain(perm) ==
    /\ \A k \in DOMAIN perm : \A l \in DOMAIN perm :
          k < l => ~BigLt(args[2][perm[k]], args[2][perm[l]])
    /\ \A k \in DOMAIN perm :
          IF k = 1
          THEN Unwrap(ret)[perm[k]].base_addr = args[1].base_addr
          ELSE Some(Unwrap(ret)[perm[k]].base_addr)
                  = next_subnet_base_addr(Unwrap(ret)[perm[k - 1]])
ChainAfterFirst(perm) ==
    /\ \A k \in DOMAIN perm : \A l \in DOMAIN perm :
          k < l => ~BigLt(args[2][perm[k]], args[2][perm[l]])
    /\ \A k \in DOMAIN perm :
          k > 1 => Some(Unwrap(ret)[perm[k]].base_addr)
                      = next_subnet_base_addr(Unwrap(ret)[perm[k - 1]])
PairwiseDisjoint(nets) ==
    \A i \in DOMAIN nets : \A j \in DOMAIN nets :
        i # j => ~(\E a \in AddrsOf(nets[i]) : contains(nets[j], a))

\* C24: the allocations of split_subnet, taken in descending order of the
\* requested size, start at the base address of the network to split and
\* each later one starts at the next_subnet_base_addr of the one before;
\* the returned networks are pairwise disjoint.
C24_ConsecutiveFromBase ==
    SplitReturned =>
        /\ \E perm \in Permutations(DOMAIN args[2]) : DescendingChain(perm)
        /\ PairwiseDisjoint(Unwrap(ret))

\* what does hold: the chain after the first allocation, and disjointness
C24_ChainAfterFirst ==
    SplitReturned =>
        /\ \E perm \in Permutations(DOMAIN args[2]) : ChainAfterFirst(perm)
        /\ PairwiseDisjoint(Unwrap(ret))

\* C25: split_subnet returns None whenever a requested count is more than
\* the hosts of the network to split, and whenever a next_subnet_base_addr
\* step has no result, also after the last request.
C25_NoneWhenTooSmall ==
    /\ [](fn = "split_subnet" /\ (\E i \in DOMAIN args[2] :
                                     BigLt(host_count(args[1]), args[2][i]))
            => ret = None)
    /\ [][(/\ fn = "split_subnet:for"
           /\ locals.indexes_and_host_counts # <<>>
           /\ ~SplitWhile
           /\ next_subnet_base_addr(locals.current_net) = None)
            => (fn' = "split_subnet" /\ ret' = None)]_vars

\* what does hold: the half about the next_subnet_base_addr step
C25_NoneWhenStepOverflows ==
    [][(/\ fn = "split_subnet:for"
        /\ locals.indexes_and_host_counts # <<>>
        /\ ~SplitWhile
        /\ next_subnet_base_addr(locals.current_net) = None)
         => (fn' = "split_subnet" /\ ret' = None)]_vars

-----------------------------------------------------------------------------
(* src/src/cmds/minimize.rs, continued                                     *)

\* a is in one of the networks at least
Covered(nets, a) == CoverCount(nets, a) > 0
\* every address a network to minimize can contain
MergeProbes(family) ==
    BlockAddrs(0, family, MergeBits) \cup BlockAddrs(1, family, MergeBits)

\* C28: minimize_subnets returns, without a failed assertion, networks that
\* contain exactly the addresses the networks given contain; its loop ends
\* (each pass leaves fewer networks, so there are no more returned than given).
C28_CoveragePreserved ==
    /\ fn = "none" => minimize_subnets(args[1]) # {}
    /\ fn = "minimize_subnets" =>
        /\ ret.tag = "ok"
        /\ Len(Unwrap(ret.val)) <= Len(args[1])
        /\ args[1] # <<>> =>
              \A a \in MergeProbes(Family(args[1][1].base_addr)) :
                 Covered(Unwrap(ret.val), a) <=> Covered(args[1], a)

\* what does hold: the same for networks whose cached prefix is the
\* prefix of their mask
C28_CoverageOfConsistent ==
    (\A i \in DOMAIN args[1] :
        args[1][i] = new_with_mask(args[1][i].base_addr, args[1][i].subnet_mask))
      => C28_CoveragePreserved

-----------------------------------------------------------------------------
(* src/src/cmds/enumerate.rs                                               *)

\* the address of net whose host bits, from the highest to the lowest, are
\* the binary digits of n
NthAddr(net, n) ==
    AddrOfWord(Family(net.base_addr),
        AsSeq([i \in DOMAIN AddrWord(net.subnet_mask) |->
            IF AddrWord(net.subnet_mask)[i] = 1 THEN AddrWord(net.base_addr)[i]
            ELSE NatToWord(n, ZeroBits(net.subnet_mask))[
                    Cardinality({j \in 1..i : AddrWord(net.subnet_mask)[j] = 0})]]))
AddressCount(net) == 2 ^ ZeroBits(net.subnet_mask)

\* C27: the calls of next return the addresses of the network, each once,
\* in ascending unraveled order from base_addr to last_addr_of_subnet, and
\* None from then on, for contiguous and mixed masks and for a network
\* that ends at the top of the address space.
C27_EachAddressOnceThenNone ==
    fn \in {"NetworkIter::new", "NetworkIter::next"} =>
        /\ \A k \in DOMAIN locals.returned :
              locals.returned[k] = IF k <= AddressCount(args[1])
                                   THEN Some(NthAddr(args[1], k - 1))
                                   ELSE None
        /\ \A k \in DOMAIN locals.returned : \A l \in DOMAIN locals.returned :
              (k < l /\ l <= AddressCount(args[1])) =>
                  /\ contains(args[1], Unwrap(locals.returned[l]))
                  /\ AddrLt(unravel_address(Unwrap(locals.returned[k]), args[1].subnet_mask),
                            unravel_address(Unwrap(locals.returned[l]), args[1].subnet_mask))
        /\ Len(locals.returned) >= 1 => locals.returned[1] = Some(args[1].base_addr)
        /\ Len(locals.returned) >= AddressCount(args[1]) =>
              locals.returned[AddressCount(args[1])] = Some(last_addr_of_subnet(args[1]))

\* a network with a mixed mask that ends at the top of the address space
\* has returned its four addresses or more and then None twice
C27_Witness ==
    /\ fn = "NetworkIter::next"
    /\ locals.self.is_empty
    /\ IsMixedMask(args[1].subnet_mask)
    /\ AddressCount(args[1]) >= 4
    /\ Len(locals.returned) = AddressCount(args[1]) + 2
    /\ ret = None

-----------------------------------------------------------------------------
(* src/src/addr.rs: the text of an Ipv6Address                             *)

\* the maximal runs of zero chunks, as pairs of a 0-based start and a length
ZeroRuns(chunks) ==
    {<<i, n>> \in (0..7) \X (1..8) :
        /\ i + n <= 8
        /\ \A k \in (i + 1)..(i + n) : chunks[k] = 0
        /\ i = 0 \/ chunks[i] # 0
        /\ i + n = 8 \/ chunks[i + n + 1] # 0}
LeftmostLongestRun(chunks) ==
    CHOOSE r \in ZeroRuns(chunks) :
        \A q \in ZeroRuns(chunks) : q[2] < r[2] \/ (q[2] = r[2] /\ r[1] <= q[1])
HexGroups(chunks, from, to) ==
    join(AsSeq([k \in 1..(to - from + 1) |-> format_x(chunks[from + k - 1])]), <<":">>)
\* the chunks with their leftmost longest run of zeros written as ::
Collapsed(chunks) ==
    IF ZeroRuns(chunks) = {} THEN HexGroups(chunks, 1, 8)
    ELSE HexGroups(chunks, 1, LeftmostLongestRun(chunks)[1])
            \o <<":", ":">>
            \o HexGroups(chunks, LeftmostLongestRun(chunks)[1] + LeftmostLongestRun(chunks)[2] + 1, 8)

\* C30: the text of an address is its chunks with the leftmost longest run
\* of zero chunks written as ::, and parsing the text gives the address
\* back, also when the only zero chunk is the first or the last one.
C30_ParseOfFormat ==
    fn = "from_str" =>
        /\ args[2] = Collapsed(to_chunks(args[1]))
        /\ ret = Ok(args[1])

\* what does hold: the text is the collapsed one, and it parses to the
\* address unless the run written as :: is one chunk at either end
C30_ParseUnlessSingleEdge ==
    fn = "from_str" =>
        /\ args[2] = Collapsed(to_chunks(args[1]))
        /\ ret = Ok(args[1])
            <=> ~(\E r \in ZeroRuns(to_chunks(args[1])) :
                    /\ r = LeftmostLongestRun(to_chunks(args[1]))
                    /\ r[2] = 1
                    /\ r[1] \in {0, 7})

====
